---- MODULE Spec2Model ----
(***************************************************************************)
(* DeferredMap<u32> (src/src/map.rs, src/src/slot.rs): a generational slot *)
(* map with two-phase insertion (allocate_handle, then insert).            *)
(*                                                                         *)
(* Representation notes.                                                   *)
(*  - Slot.version is a u32 whose low 2 bits are the state and whose high  *)
(*    30 bits are the generation.  TLC integers are 32-bit signed, so the  *)
(*    word is held as the pair [gen, st] with version = gen * 4 + st, and  *)
(*    wrapping_add works on that pair modulo 2^32.                         *)
(*  - The element type is u32, so the union SlotUnion is one u32 cell `u`  *)
(*    read either as the value or as next_free.                            *)
(*  - Rust index i of the Vec is position i + 1 of the sequence `slots`.   *)
(*  - A key (u64) is held decoded, as [index, generation].                 *)
(*  - The checks of insert and release_handle are debug_assert!s: they     *)
(*    exist in builds with debug_assertions and are compiled out           *)
(*    otherwise.  The variable debug_assertions fixes the build.           *)
(***************************************************************************)
EXTENDS Integers, Sequences, FiniteSets, TLC

\* ------------------------------------------------------------------ bounds
MaxAllocs == 3          \* allocate_handle calls in one run
MaxValue  == 1          \* stored values are 0..MaxValue
MaxMaps   == 3          \* DeferredMap instances made in one run

\* ------------------------------------------------------- program constants
GenModulus == 1073741824    \* 2^30: generation = version >> 2 of a u32

Values == 0..MaxValue

VARIABLES
    slots,              \* Vec<Slot<T>>: sequence of [version, u]
    free_head,          \* u32: head of the free list
    num_elems,          \* u32: element count (see u32_dec)
    debug_assertions,   \* cfg(debug_assertions) of the build
    handles,            \* Handle values held by the caller, not yet consumed
    issued,             \* history: every handle returned by allocate_handle
    removed,            \* history: keys for which remove returned Some
    vacated,            \* history: indices vacated and not reallocated since
    last_gen,           \* history: per index, generation of its last handle
    ret,                \* the last call and what it returned
    map_id,             \* u64: instance id of the map (checked in debug builds)
    NEXT_MAP_ID,        \* static AtomicU64: the id the next instance gets
    clone,              \* a second DeferredMap made by clone(), or NoMap
    sec,                \* a SecondaryMap keyed by the map's keys
    codec,              \* a run of the key codec: its inputs and results
    snap                \* a slot on its way through serde, or NoSnap

vars == <<slots, free_head, num_elems, debug_assertions, handles, issued,
          removed, vacated, last_gen, ret, map_id, NEXT_MAP_ID, clone, sec,
          codec, snap>>

\* what the operations of the map itself leave alone
others == <<map_id, NEXT_MAP_ID, clone, sec, codec, snap>>

\* ------------------------------------------------------------------ Option
None == <<>>
Some(v) == <<v>>

\* -------------------------------------------------------------------- keys
encode_key(index, generation) == [index |-> index, generation |-> generation]

\* ------------------------------------------------------------------- slots
VACANT   == 0
RESERVED == 1
OCCUPIED == 3

Version(gen, st) == [gen |-> gen, st |-> st]

\* u32::wrapping_add(version, n) for 0 <= n <= 3
wrapping_add(version, n) ==
    LET t == version.st + n
    IN  Version((version.gen + (t \div 4)) % GenModulus, t % 4)

state_bits(slot) == slot.version.st
is_vacant(slot) == state_bits(slot) = VACANT
is_reserved(slot) == state_bits(slot) = RESERVED
is_occupied(slot) == state_bits(slot) = OCCUPIED
generation(slot) == slot.version.gen

Sentinel == [version |-> Version(0, VACANT), u |-> 0]

\* a new slot pushed without its Reserved bit
NewSlot_vacant == [version |-> Version(0, VACANT), u |-> 0]

\* The slot pushed by allocate_handle when the free list is exhausted:
\* version 0b01 (Reserved, generation 0), next_free 0.
NewSlot == [version |-> Version(0, RESERVED), u |-> 0]

\* allocate_handle on a slot of the free list: `slot.version += 1`.  The
\* addition can overflow only from version u32::MAX, which no build with
\* debug_assertions reaches; elsewhere `+=` wraps.
ReserveSlot(slot) == [slot EXCEPT !.version = wrapping_add(@, 1)]

\* insert that advances the state bits by one step only
InsertSlot_one_step(slot, value) ==
    [version |-> wrapping_add(slot.version, 1), u |-> value]

\* insert: `slot.u.value = value; slot.version += 2`
InsertSlot(slot, value) ==
    [version |-> wrapping_add(slot.version, 2), u |-> value]

\* remove that clears the state bits and keeps the generation
RemoveSlot_same_generation(slot, head) ==
    [version |-> Version(slot.version.gen, VACANT), u |-> head]

\* remove: `slot.u.next_free = free_head; version.wrapping_add(1)`
RemoveSlot(slot, head) ==
    [version |-> wrapping_add(slot.version, 1), u |-> head]

\* release_handle that does not link the slot to the old free list head
ReleaseSlot_no_link(slot, head) ==
    [version |-> wrapping_add(slot.version, 3), u |-> slot.u]

\* release_handle: `slot.u.next_free = free_head; version.wrapping_add(3)`
ReleaseSlot(slot, head) ==
    [version |-> wrapping_add(slot.version, 3), u |-> head]

\* slots[index] and slots.len()
SlotAt(index) == slots[index + 1]
slots_len == Len(slots)
SetSlot(index, slot) == [slots EXCEPT ![index + 1] = slot]

\* num_elems is a u32.  It is held as the representative of its residue
\* class modulo 2^32 that lies nearest 0, so -1 stands for u32::MAX.
u32_inc(n) == n + 1
u32_dec(n) == n - 1

\* ---------------------------------------------------------------- lookups
\* get that forgets to compare generations
get_any_generation(key) ==
    IF key.index >= slots_len THEN None
    ELSE LET slot == SlotAt(key.index)
         IN  IF is_occupied(slot) THEN Some(slot.u) ELSE None

get(key) ==
    IF key.index >= slots_len THEN None
    ELSE LET slot == SlotAt(key.index)
         IN  IF generation(slot) = key.generation /\ is_occupied(slot)
             THEN Some(slot.u)
             ELSE None

get_mut(key) ==
    IF key.index >= slots_len THEN None
    ELSE LET slot == SlotAt(key.index)
         IN  IF generation(slot) = key.generation /\ is_occupied(slot)
             THEN Some(slot.u)
             ELSE None

contains_key(key) == get(key) # None

len == num_elems
is_empty == num_elems = 0
\* a capacity that counts the sentinel
capacity_with_sentinel == slots_len

\* capacity(): slots.len().saturating_sub(1)
capacity == IF slots_len = 0 THEN 0 ELSE slots_len - 1

\* -------------------------------------------------------------- iteration
\* slots.iter().enumerate().skip(1): the indices after the sentinel, in order
skip1 == [n \in 1..(slots_len - 1) |-> n]

\* an iterator that yields every slot that is not Vacant
iter_not_vacant ==
    LET kept == SelectSeq(skip1, LAMBDA index : ~is_vacant(SlotAt(index)))
    IN  [n \in 1..Len(kept) |->
            <<encode_key(kept[n], generation(SlotAt(kept[n]))),
              SlotAt(kept[n]).u>>]

\* iter(): filter_map keeps the slots whose content is Occupied(value) and
\* yields (encode_key(index, slot.generation()), value).  The sequence of
\* the pairs yielded.
iter ==
    LET kept == SelectSeq(skip1, LAMBDA index : is_occupied(SlotAt(index)))
    IN  [n \in 1..Len(kept) |->
            <<encode_key(kept[n], generation(SlotAt(kept[n]))),
              SlotAt(kept[n]).u>>]

\* iter_mut(): the same scan, the generation read before the content.
iter_mut ==
    LET kept == SelectSeq(skip1, LAMBDA index : is_occupied(SlotAt(index)))
    IN  [n \in 1..Len(kept) |->
            LET g == generation(SlotAt(kept[n]))
            IN  <<encode_key(kept[n], g), SlotAt(kept[n]).u>>]

\* ------------------------------------------------------------------ inputs
NoKey == encode_key(0, 0)

\* Keys the map never issued: an index past any slot array of a run, and
\* the first slot with a generation above the 30 bits a slot can hold (the
\* generation field of a key is 32 bits wide).
ForeignKeys == {encode_key(MaxAllocs + 1, 0), encode_key(1, GenModulus)}

\* Keys a caller looks up: the key it was given last and the sentinel key.
LookupInputs == {issued[n] : n \in {Len(issued)} \ {0}} \cup {NoKey}

\* Keys a caller presents to remove: every key it was given that resolves,
\* the keys it looks up (after remove or clear these no longer resolve) and
\* the keys the map never issued.
KeyInputs ==
    {k \in {issued[n] : n \in 1..Len(issued)} : contains_key(k)}
        \cup LookupInputs \cup ForeignKeys

Ret(op, key, val, outcome) ==
    [op |-> op, key |-> key, val |-> val, outcome |-> outcome]

\* history helpers
Without(seq, i) == SelectSeq(seq, LAMBDA x : x # i)
Vacate(seq, i) == Append(Without(seq, i), i)
SetLastGen(f, i, g) ==
    [j \in (DOMAIN f) \cup {i} |-> IF j = i THEN g ELSE f[j]]

\* No second map has been made.
NoMap == <<>>

\* The key codec has not been run; no slot is being serialized.
NoCodec == <<>>
NoSnap == <<>>

\* SecondaryMap::new(): no slots, no elements, not yet bound to a map id.
NewSecondary == [slots |-> <<>>, num_elems |-> 0, map_id |-> None]

\* ------------------------------------------------------------------- Init
Init ==
    /\ slots = <<Sentinel>>
    /\ free_head = 1
    /\ num_elems = 0
    /\ debug_assertions \in BOOLEAN
    /\ handles = {}
    /\ issued = <<>>
    /\ removed = {}
    /\ vacated = <<>>
    /\ last_gen = <<>>
    /\ ret = Ret("new", NoKey, None, "ok")
    /\ map_id = 0
    /\ NEXT_MAP_ID = 1
    /\ clone = NoMap
    /\ sec = NewSecondary
    /\ codec = NoCodec
    /\ snap = NoSnap

\* ---------------------------------------------------------------- actions
\* allocate_handle that leaves free_head on the slot it has just pushed
AllocateHandle_keeps_head ==
    /\ Len(issued) < MaxAllocs
    /\ LET reuse == free_head < slots_len
           index == IF reuse THEN free_head ELSE slots_len
           slot  == IF reuse THEN ReserveSlot(SlotAt(index)) ELSE NewSlot
           raw   == encode_key(index, generation(slot))
       IN  /\ slots' = IF reuse THEN SetSlot(index, slot)
                                ELSE Append(slots, slot)
           /\ free_head' = IF reuse THEN SlotAt(index).u ELSE index
           /\ handles' = handles \cup {[key |-> raw, id |-> Len(issued) + 1,
                                            map_id |-> map_id]}
           /\ issued' = Append(issued, raw)
           /\ vacated' = Without(vacated, index)
           /\ last_gen' = SetLastGen(last_gen, index, raw.generation)
           /\ ret' = Ret("allocate_handle", raw, None,
                         IF reuse THEN "reused" ELSE "appended")
    /\ UNCHANGED <<num_elems, debug_assertions, removed>>
    /\ UNCHANGED others

\* allocate_handle: pop the free list head if it names a slot of the array,
\* otherwise push a new slot in Reserved state.
AllocateHandle ==
    /\ Len(issued) < MaxAllocs
    /\ LET reuse == free_head < slots_len
           index == IF reuse THEN free_head ELSE slots_len
           slot  == IF reuse THEN ReserveSlot(SlotAt(index)) ELSE NewSlot
           raw   == encode_key(index, generation(slot))
       IN  /\ slots' = IF reuse THEN SetSlot(index, slot)
                                ELSE Append(slots, slot)
           /\ free_head' = IF reuse THEN SlotAt(index).u ELSE index + 1
           /\ handles' = handles \cup {[key |-> raw, id |-> Len(issued) + 1,
                                            map_id |-> map_id]}
           /\ issued' = Append(issued, raw)
           /\ vacated' = Without(vacated, index)
           /\ last_gen' = SetLastGen(last_gen, index, raw.generation)
           /\ ret' = Ret("allocate_handle", raw, None,
                         IF reuse THEN "reused" ELSE "appended")
    /\ UNCHANGED <<num_elems, debug_assertions, removed>>
    /\ UNCHANGED others

\* The four debug_assert!s shared by insert and release_handle.
HandleChecks(key) ==
    /\ key.index # 0
    /\ key.index < slots_len
    /\ generation(SlotAt(key.index)) = key.generation
    /\ is_reserved(SlotAt(key.index))

\* The message of the first of those debug_assert!s that fails.
PanicMessage(key) ==
    IF key.index = 0 THEN "Invalid handle: sentinel index"
    ELSE IF key.index >= slots_len THEN "Invalid handle: index out of bounds"
    ELSE IF generation(SlotAt(key.index)) # key.generation
    THEN "Generation mismatch"
    ELSE "Handle already used or invalid state"

\* debug_assert_eq!(self.map_id, handle.map_id), the first check of both
WrongMapMessage == "Handle used with wrong map instance"

\* the panic of the bounds-checked `self.slots[index]` of release_handle
IndexPanicMessage == "index out of bounds"

\* insert(handle, value).  The handle is moved into the call.  With
\* debug_assertions a failed check panics before the slot is touched (the
\* outcome is the panic message).
\* Without them the slot is written unchecked (outcome "unchecked" when a
\* check would have failed); for an index past the array get_unchecked_mut
\* is undefined behaviour: the write lands outside the live slots and
\* num_elems is still incremented, or the call stops before that.
Insert(h, value) ==
    /\ h \in handles
    /\ handles' = handles \ {h}
    /\ LET index == h.key.index
       IN  IF debug_assertions /\ h.map_id # map_id
           THEN /\ ret' = Ret("insert", h.key, None, WrongMapMessage)
                /\ UNCHANGED <<slots, num_elems>>
           ELSE IF debug_assertions /\ ~HandleChecks(h.key)
           THEN /\ ret' = Ret("insert", h.key, None, PanicMessage(h.key))
                /\ UNCHANGED <<slots, num_elems>>
           ELSE IF index >= slots_len
           THEN \/ /\ ret' = Ret("insert", h.key, None, "ub")
                   /\ UNCHANGED <<slots, num_elems>>
                \/ /\ ret' = Ret("insert", h.key, Some(value), "ub")
                   /\ num_elems' = u32_inc(num_elems)
                   /\ UNCHANGED slots
           ELSE /\ slots' = SetSlot(index, InsertSlot(SlotAt(index), value))
                /\ num_elems' = u32_inc(num_elems)
                /\ ret' = Ret("insert", h.key, Some(value),
                              IF HandleChecks(h.key) THEN "ok"
                                                     ELSE "unchecked")
    /\ UNCHANGED <<free_head, debug_assertions, issued, removed, vacated,
                   last_gen>>
    /\ UNCHANGED others

\* release_handle(handle).  `self.slots[index]` is bounds-checked in every
\* build; the other checks are debug_assert!s.  num_elems is not touched.
ReleaseHandle(h) ==
    /\ h \in handles
    /\ handles' = handles \ {h}
    /\ LET index == h.key.index
       IN  IF debug_assertions /\ h.map_id # map_id
           THEN /\ ret' = Ret("release_handle", h.key, None, WrongMapMessage)
                /\ UNCHANGED <<slots, free_head, vacated>>
           ELSE IF debug_assertions /\ ~HandleChecks(h.key)
           THEN /\ ret' = Ret("release_handle", h.key, None,
                              PanicMessage(h.key))
                /\ UNCHANGED <<slots, free_head, vacated>>
           ELSE IF index >= slots_len
           THEN /\ ret' = Ret("release_handle", h.key, None,
                              IndexPanicMessage)
                /\ UNCHANGED <<slots, free_head, vacated>>
           ELSE LET slot == ReleaseSlot(SlotAt(index), free_head)
                IN  /\ slots' = SetSlot(index, slot)
                    /\ free_head' = index
                    /\ vacated' = IF is_vacant(slot)
                                  THEN Vacate(vacated, index) ELSE vacated
                    /\ ret' = Ret("release_handle", h.key, None,
                                  IF HandleChecks(h.key) THEN "ok"
                                                         ELSE "unchecked")
    /\ UNCHANGED <<num_elems, debug_assertions, issued, removed, last_gen>>
    /\ UNCHANGED others

\* remove that takes the value of any Occupied slot, whatever the key's
\* generation
Remove_any_generation(key) ==
    /\ key \in KeyInputs
    /\ IF key.index >= slots_len \/ ~is_occupied(SlotAt(key.index))
       THEN /\ ret' = Ret("remove", key, None, "ok")
            /\ UNCHANGED <<slots, free_head, num_elems, removed, vacated>>
       ELSE /\ slots' = SetSlot(key.index,
                                RemoveSlot(SlotAt(key.index), free_head))
            /\ free_head' = key.index
            /\ num_elems' = u32_dec(num_elems)
            /\ removed' = removed \cup {key}
            /\ vacated' = Vacate(vacated, key.index)
            /\ ret' = Ret("remove", key, Some(SlotAt(key.index).u), "ok")
    /\ UNCHANGED <<debug_assertions, handles, issued, last_gen>>
    /\ UNCHANGED others

\* remove(key)
Remove(key) ==
    /\ key \in KeyInputs
    /\ IF key.index >= slots_len
       THEN /\ ret' = Ret("remove", key, None, "ok")
            /\ UNCHANGED <<slots, free_head, num_elems, removed, vacated>>
       ELSE LET slot == SlotAt(key.index)
            IN  IF generation(slot) = key.generation /\ is_occupied(slot)
                THEN /\ slots' = SetSlot(key.index,
                                          RemoveSlot(slot, free_head))
                     /\ free_head' = key.index
                     /\ num_elems' = u32_dec(num_elems)
                     /\ removed' = removed \cup {key}
                     /\ vacated' = Vacate(vacated, key.index)
                     /\ ret' = Ret("remove", key, Some(slot.u), "ok")
                ELSE /\ ret' = Ret("remove", key, None, "ok")
                     /\ UNCHANGED <<slots, free_head, num_elems, removed,
                                    vacated>>
    /\ UNCHANGED <<debug_assertions, handles, issued, last_gen>>
    /\ UNCHANGED others

\* get(key) and contains_key(key): observations
Get(key) ==
    /\ key \in LookupInputs
    /\ ret' = Ret("get", key, get(key), "ok")
    /\ UNCHANGED <<slots, free_head, num_elems, debug_assertions, handles,
                   issued, removed, vacated, last_gen>>
    /\ UNCHANGED others

ContainsKey(key) ==
    /\ key \in LookupInputs
    /\ ret' = Ret("contains_key", key, None,
                  IF contains_key(key) THEN "true" ELSE "false")
    /\ UNCHANGED <<slots, free_head, num_elems, debug_assertions, handles,
                   issued, removed, vacated, last_gen>>
    /\ UNCHANGED others

\* get_mut(key), the caller then writing value through the reference
GetMut(key, value) ==
    /\ key \in LookupInputs
    /\ ret' = Ret("get_mut", key, get_mut(key), "ok")
    /\ slots' = IF get_mut(key) # None
                THEN SetSlot(key.index, [SlotAt(key.index) EXCEPT !.u = value])
                ELSE slots
    /\ UNCHANGED <<free_head, num_elems, debug_assertions, handles, issued,
                   removed, vacated, last_gen>>
    /\ UNCHANGED others

\* clear that leaves the element count as it is
Clear_keeps_num_elems ==
    /\ slots' = <<Sentinel>>
    /\ free_head' = 1
    /\ vacated' = <<>>
    /\ last_gen' = <<>>
    /\ ret' = Ret("clear", NoKey, None, "ok")
    /\ UNCHANGED <<num_elems, debug_assertions, handles, issued, removed>>
    /\ UNCHANGED others

\* clear()
Clear ==
    /\ slots' = <<Sentinel>>
    /\ free_head' = 1
    /\ num_elems' = 0
    /\ vacated' = <<>>
    /\ last_gen' = <<>>
    /\ ret' = Ret("clear", NoKey, None, "ok")
    /\ UNCHANGED <<debug_assertions, handles, issued, removed>>
    /\ UNCHANGED others

Next ==
    \/ AllocateHandle
    \/ \E h \in handles, value \in Values : Insert(h, value)
    \/ \E h \in handles : ReleaseHandle(h)
    \/ \E key \in KeyInputs : Remove(key)
    \/ \E key \in LookupInputs : Get(key)
    \/ \E key \in LookupInputs : ContainsKey(key)
    \/ \E key \in LookupInputs, value \in Values : GetMut(key, value)
    \/ Clear

Spec == Init /\ [][Next]_vars

\* A map that has recycled slot 1 through all but its last generation:
\* after 2^30 - 1 rounds of allocate_handle and release_handle on a new map
\* slot 1 is Vacant at generation 2^30 - 1, next_free 2, free_head 1, and
\* every handle has been consumed.  The histories start here.
InitWrap ==
    /\ slots = <<Sentinel,
                 [version |-> Version(GenModulus - 1, VACANT), u |-> 2]>>
    /\ free_head = 1
    /\ num_elems = 0
    /\ debug_assertions \in BOOLEAN
    /\ handles = {}
    /\ issued = <<>>
    /\ removed = {}
    /\ vacated = <<1>>
    /\ last_gen = <<GenModulus - 2>>
    /\ ret = Ret("release_handle", encode_key(1, GenModulus - 2), None, "ok")
    /\ map_id = 0
    /\ NEXT_MAP_ID = 1
    /\ clone = NoMap
    /\ sec = NewSecondary
    /\ codec = NoCodec
    /\ snap = NoSnap

SpecWrap == InitWrap /\ [][Next]_vars

\* ------------------------------------------------------------------- clone
\* a Slot::clone that copies the version and the free list link only
clone_slot_without_value(slot) ==
    [version |-> slot.version,
     u |-> IF is_occupied(slot) THEN 0 ELSE slot.u]

\* Slot::clone: the value of an Occupied slot, the next_free of any other,
\* and the version.  With T = u32 both arms copy the one cell.
clone_slot(slot) ==
    [version |-> slot.version,
     u |-> IF is_occupied(slot) THEN slot.u ELSE slot.u]

\* Slot::clone_from: every arm leaves the source's cell and version.
clone_from_slot(self, source) ==
    [version |-> source.version,
     u |-> IF is_occupied(source) THEN source.u ELSE source.u]

\* Vec::clone and Vec::clone_from
clone_slots(source) == [i \in 1..Len(source) |-> clone_slot(source[i])]
clone_from_slots(self, source) ==
    [i \in 1..Len(source) |->
        IF i <= Len(self) THEN clone_from_slot(self[i], source[i])
                          ELSE clone_slot(source[i])]

\* what clone() and clone_from() leave alone
map_vars == <<slots, free_head, num_elems, debug_assertions, handles, issued,
              removed, vacated, last_gen, map_id, sec, codec, snap>>

\* a clone that copies the map id with the other fields
Clone_same_id ==
    /\ clone = NoMap
    /\ NEXT_MAP_ID < MaxMaps
    /\ clone' = [slots |-> clone_slots(slots), free_head |-> free_head,
                 num_elems |-> num_elems, map_id |-> map_id]
    /\ NEXT_MAP_ID' = NEXT_MAP_ID + 1
    /\ ret' = Ret("clone", NoKey, None, "ok")
    /\ UNCHANGED map_vars

\* let clone = map.clone(): a new instance with a copy of the slots, the
\* free list head and the element count, and the next map id.  (map_id and
\* NEXT_MAP_ID exist in builds with debug_assertions; elsewhere they only
\* label the instances.)  The caller clones the map once and refreshes the
\* clone with clone_from.
Clone ==
    /\ clone = NoMap
    /\ NEXT_MAP_ID < MaxMaps
    /\ clone' = [slots |-> clone_slots(slots), free_head |-> free_head,
                 num_elems |-> num_elems, map_id |-> NEXT_MAP_ID]
    /\ NEXT_MAP_ID' = NEXT_MAP_ID + 1
    /\ ret' = Ret("clone", NoKey, None, "ok")
    /\ UNCHANGED map_vars

\* a clone_from that copies the slots and the count and keeps its own
\* free list head
CloneFrom_keeps_free_head ==
    /\ clone # NoMap
    /\ NEXT_MAP_ID < MaxMaps
    /\ clone' = [slots |-> clone_from_slots(clone.slots, slots),
                 free_head |-> clone.free_head, num_elems |-> num_elems,
                 map_id |-> NEXT_MAP_ID]
    /\ NEXT_MAP_ID' = NEXT_MAP_ID + 1
    /\ ret' = Ret("clone_from", NoKey, None, "ok")
    /\ UNCHANGED map_vars

\* clone.clone_from(&map)
CloneFrom ==
    /\ clone # NoMap
    /\ NEXT_MAP_ID < MaxMaps
    /\ clone' = [slots |-> clone_from_slots(clone.slots, slots),
                 free_head |-> free_head, num_elems |-> num_elems,
                 map_id |-> NEXT_MAP_ID]
    /\ NEXT_MAP_ID' = NEXT_MAP_ID + 1
    /\ ret' = Ret("clone_from", NoKey, None, "ok")
    /\ UNCHANGED map_vars

TypeOK ==
    /\ slots_len >= 1
    /\ \A i \in 0..(slots_len - 1) :
          /\ SlotAt(i).version.gen \in 0..(GenModulus - 1)
          /\ SlotAt(i).version.st \in 0..3
    /\ debug_assertions \in BOOLEAN

\* ---------------------------------------------- the operations on the clone
\* The methods above with `self` the clone.
CloneSlotAt(index) == clone.slots[index + 1]
clone_len == Len(clone.slots)
CloneSetSlot(index, slot) == [clone.slots EXCEPT ![index + 1] = slot]

clone_get(key) ==
    IF key.index >= clone_len THEN None
    ELSE LET slot == CloneSlotAt(key.index)
         IN  IF generation(slot) = key.generation /\ is_occupied(slot)
             THEN Some(slot.u)
             ELSE None

CloneHandleChecks(key) ==
    /\ key.index # 0
    /\ key.index < clone_len
    /\ generation(CloneSlotAt(key.index)) = key.generation
    /\ is_reserved(CloneSlotAt(key.index))

ClonePanicMessage(key) ==
    IF key.index = 0 THEN "Invalid handle: sentinel index"
    ELSE IF key.index >= clone_len THEN "Invalid handle: index out of bounds"
    ELSE IF generation(CloneSlotAt(key.index)) # key.generation
    THEN "Generation mismatch"
    ELSE "Handle already used or invalid state"

\* Keys presented to the clone: keys the caller holds that resolve in it.
CloneKeyInputs ==
    IF clone = NoMap THEN {}
    ELSE {k \in {issued[n] : n \in 1..Len(issued)} \cup {ret.key} :
             clone_get(k) # None}

\* what the operations on the clone leave alone
orig_vars == <<slots, free_head, num_elems, debug_assertions, issued, removed,
               vacated, last_gen, map_id, NEXT_MAP_ID, sec, codec, snap>>

CloneInsert(h, value) ==
    /\ clone # NoMap
    /\ h \in handles
    /\ handles' = handles \ {h}
    /\ LET index == h.key.index
       IN  IF debug_assertions /\ h.map_id # clone.map_id
           THEN /\ ret' = Ret("clone.insert", h.key, None, WrongMapMessage)
                /\ UNCHANGED clone
           ELSE IF debug_assertions /\ ~CloneHandleChecks(h.key)
           THEN /\ ret' = Ret("clone.insert", h.key, None,
                              ClonePanicMessage(h.key))
                /\ UNCHANGED clone
           ELSE IF index >= clone_len
           THEN \/ /\ ret' = Ret("clone.insert", h.key, None, "ub")
                   /\ UNCHANGED clone
                \/ /\ ret' = Ret("clone.insert", h.key, Some(value), "ub")
                   /\ clone' = [clone EXCEPT !.num_elems = u32_inc(@)]
           ELSE /\ clone' = [clone EXCEPT
                      !.slots = CloneSetSlot(index,
                                    InsertSlot(CloneSlotAt(index), value)),
                      !.num_elems = u32_inc(@)]
                /\ ret' = Ret("clone.insert", h.key, Some(value),
                              IF CloneHandleChecks(h.key) THEN "ok"
                                                          ELSE "unchecked")
    /\ UNCHANGED orig_vars

CloneReleaseHandle(h) ==
    /\ clone # NoMap
    /\ h \in handles
    /\ handles' = handles \ {h}
    /\ LET index == h.key.index
       IN  IF debug_assertions /\ h.map_id # clone.map_id
           THEN /\ ret' = Ret("clone.release_handle", h.key, None,
                              WrongMapMessage)
                /\ UNCHANGED clone
           ELSE IF debug_assertions /\ ~CloneHandleChecks(h.key)
           THEN /\ ret' = Ret("clone.release_handle", h.key, None,
                              ClonePanicMessage(h.key))
                /\ UNCHANGED clone
           ELSE IF index >= clone_len
           THEN /\ ret' = Ret("clone.release_handle", h.key, None,
                              IndexPanicMessage)
                /\ UNCHANGED clone
           ELSE /\ clone' = [clone EXCEPT
                      !.slots = CloneSetSlot(index,
                          ReleaseSlot(CloneSlotAt(index), clone.free_head)),
                      !.free_head = index]
                /\ ret' = Ret("clone.release_handle", h.key, None,
                              IF CloneHandleChecks(h.key) THEN "ok"
                                                          ELSE "unchecked")
    /\ UNCHANGED orig_vars

CloneRemove(key) ==
    /\ clone # NoMap
    /\ key \in CloneKeyInputs
    /\ IF key.index >= clone_len
       THEN /\ ret' = Ret("clone.remove", key, None, "ok")
            /\ UNCHANGED clone
       ELSE LET slot == CloneSlotAt(key.index)
            IN  IF generation(slot) = key.generation /\ is_occupied(slot)
                THEN /\ clone' = [clone EXCEPT
                           !.slots = CloneSetSlot(key.index,
                                         RemoveSlot(slot, clone.free_head)),
                           !.free_head = key.index,
                           !.num_elems = u32_dec(@)]
                     /\ ret' = Ret("clone.remove", key, Some(slot.u), "ok")
                ELSE /\ ret' = Ret("clone.remove", key, None, "ok")
                     /\ UNCHANGED clone
    /\ UNCHANGED <<orig_vars, handles>>

CloneGetMut(key, value) ==
    /\ clone # NoMap
    /\ key \in CloneKeyInputs
    /\ ret' = Ret("clone.get_mut", key, clone_get(key), "ok")
    /\ clone' = IF clone_get(key) # None
                THEN [clone EXCEPT !.slots = CloneSetSlot(key.index,
                         [CloneSlotAt(key.index) EXCEPT !.u = value])]
                ELSE clone
    /\ UNCHANGED <<orig_vars, handles>>

CloneClear ==
    /\ clone # NoMap
    /\ clone' = [clone EXCEPT !.slots = <<Sentinel>>, !.free_head = 1,
                              !.num_elems = 0]
    /\ ret' = Ret("clone.clear", NoKey, None, "ok")
    /\ UNCHANGED <<orig_vars, handles>>

\* A map with one slot of each kind, as left by
\*   h1 = allocate_handle(); h2 = allocate_handle(); h3 = allocate_handle();
\*   release_handle(h2); insert(h3, 0)
\* on a new map: slot 1 Reserved with h1 outstanding, slot 2 Vacant at
\* generation 1 and alone on the free list, slot 3 Occupied.
InitClone ==
    /\ slots = <<Sentinel,
                 [version |-> Version(0, RESERVED), u |-> 0],
                 [version |-> Version(1, VACANT), u |-> 4],
                 [version |-> Version(0, OCCUPIED), u |-> 0]>>
    /\ free_head = 2
    /\ num_elems = 1
    /\ debug_assertions \in BOOLEAN
    /\ handles = {[key |-> encode_key(1, 0), id |-> 1, map_id |-> 0]}
    /\ issued = <<encode_key(1, 0), encode_key(2, 0), encode_key(3, 0)>>
    /\ removed = {}
    /\ vacated = <<2>>
    /\ last_gen = <<0, 0, 0>>
    /\ ret = Ret("insert", encode_key(3, 0), Some(0), "ok")
    /\ map_id = 0
    /\ NEXT_MAP_ID = 1
    /\ clone = NoMap
    /\ sec = NewSecondary
    /\ codec = NoCodec
    /\ snap = NoSnap

\* The two maps used side by side: the writes to the map, clone and
\* clone_from, and the writes to the clone.  The caller allocates no handle
\* here: the handles it presents to either map are those of the map.
NextClone ==
    \/ \E h \in handles, value \in Values : Insert(h, value)
    \/ \E h \in handles : ReleaseHandle(h)
    \/ \E key \in KeyInputs \ ForeignKeys : Remove(key)
    \/ \E key \in KeyInputs \ ForeignKeys, value \in Values :
            GetMut(key, value)
    \/ Clear
    \/ Clone
    \/ CloneFrom
    \/ \E h \in handles, value \in Values : CloneInsert(h, value)
    \/ \E h \in handles : CloneReleaseHandle(h)
    \/ \E key \in CloneKeyInputs : CloneRemove(key)
    \/ \E key \in CloneKeyInputs, value \in Values : CloneGetMut(key, value)
    \/ CloneClear

SpecClone == InitClone /\ [][NextClone]_vars

\* ------------------------------------------------------------ SecondaryMap
\* SecondaryMap<bool>: slots is a Vec<Option<Slot>>, a Slot being a value
\* with the generation of the key it was stored under; position i + 1 of
\* the sequence is index i.  Its keys are the keys of the map, so
\* key.map_id() is map_id.
SecValues == BOOLEAN
SecSlot(value, gen) == [value |-> value, generation |-> gen]
sec_len == Len(sec.slots)
SecSlotAt(index) == sec.slots[index + 1]

\* resize_with(index + 1, || None)
resize_with_None(v, n) == [i \in 1..n |-> IF i <= Len(v) THEN v[i] ELSE None]

\* a get that answers for any generation of the index
sec_get_any_generation(key) ==
    IF key.index >= sec_len THEN None
    ELSE LET slot_opt == SecSlotAt(key.index)
         IN  IF slot_opt # None THEN Some(slot_opt[1].value) ELSE None

\* SecondaryMap::get(key)
sec_get(key) ==
    IF key.index >= sec_len THEN None
    ELSE LET slot_opt == SecSlotAt(key.index)
         IN  IF slot_opt # None /\ slot_opt[1].generation = key.generation
             THEN Some(slot_opt[1].value)
             ELSE None

\* SecondaryMap::get_mut(key)
sec_get_mut(key) ==
    IF key.index >= sec_len THEN None
    ELSE LET slot_opt == SecSlotAt(key.index)
         IN  IF slot_opt # None /\ slot_opt[1].generation = key.generation
             THEN Some(slot_opt[1].value)
             ELSE None

sec_contains_key(key) == sec_get(key) # None

\* SecondaryMap::len()
sec_elems == sec.num_elems

\* the map_id field after the debug block that opens insert
SecBind == IF debug_assertions /\ sec.map_id = None THEN Some(map_id)
                                                     ELSE sec.map_id

\* what the operations on the SecondaryMap leave alone
primary_vars == <<slots, free_head, num_elems, debug_assertions, handles,
                  issued, removed, vacated, last_gen, map_id, NEXT_MAP_ID,
                  clone, codec, snap>>

\* an insert that stores whatever the key's generation is
SecInsert_any_generation(key, value) ==
    /\ LET grown == IF key.index >= sec_len
                    THEN resize_with_None(sec.slots, key.index + 1)
                    ELSE sec.slots
           slot_opt == grown[key.index + 1]
       IN  /\ sec' = [slots |-> [grown EXCEPT ![key.index + 1] =
                                     Some(SecSlot(value, key.generation))],
                      num_elems |-> IF slot_opt = None
                                    THEN sec.num_elems + 1 ELSE sec.num_elems,
                      map_id |-> SecBind]
           /\ ret' = Ret("sec.insert", key,
                         IF slot_opt = None THEN None
                         ELSE Some(slot_opt[1].value), "ok")
    /\ UNCHANGED primary_vars

\* SecondaryMap::insert(key, value)
SecInsert(key, value) ==
    /\ LET grown == IF key.index >= sec_len
                    THEN resize_with_None(sec.slots, key.index + 1)
                    ELSE sec.slots
           slot_opt == grown[key.index + 1]
       IN  IF debug_assertions /\ sec.map_id # None
              /\ sec.map_id # Some(map_id)
           THEN /\ ret' = Ret("sec.insert", key, None,
                              "Key used with wrong map instance in SecondaryMap")
                /\ UNCHANGED sec
           ELSE IF slot_opt = None
           THEN /\ sec' = [slots |-> [grown EXCEPT ![key.index + 1] =
                                          Some(SecSlot(value, key.generation))],
                           num_elems |-> sec.num_elems + 1,
                           map_id |-> SecBind]
                /\ ret' = Ret("sec.insert", key, None, "ok")
           ELSE IF slot_opt[1].generation = key.generation
           THEN /\ sec' = [slots |-> [grown EXCEPT ![key.index + 1] =
                                          Some(SecSlot(value, key.generation))],
                           num_elems |-> sec.num_elems,
                           map_id |-> SecBind]
                /\ ret' = Ret("sec.insert", key, Some(slot_opt[1].value), "ok")
           ELSE IF slot_opt[1].generation < key.generation
           THEN /\ sec' = [slots |-> [grown EXCEPT ![key.index + 1] =
                                          Some(SecSlot(value, key.generation))],
                           num_elems |-> sec.num_elems,
                           map_id |-> SecBind]
                /\ ret' = Ret("sec.insert", key, None, "ok")
           ELSE /\ sec' = [slots |-> grown, num_elems |-> sec.num_elems,
                           map_id |-> SecBind]
                /\ ret' = Ret("sec.insert", key, None, "ok")
    /\ UNCHANGED primary_vars

\* a remove that empties the cell whatever generation it holds
SecRemove_any_generation(key) ==
    /\ IF key.index >= sec_len \/ SecSlotAt(key.index) = None
       THEN /\ ret' = Ret("sec.remove", key, None, "ok")
            /\ UNCHANGED sec
       ELSE /\ sec' = [sec EXCEPT !.slots[key.index + 1] = None,
                                  !.num_elems = @ - 1]
            /\ ret' = Ret("sec.remove", key,
                          Some(SecSlotAt(key.index)[1].value), "ok")
    /\ UNCHANGED primary_vars

\* SecondaryMap::remove(key)
SecRemove(key) ==
    /\ IF debug_assertions /\ sec.map_id # None /\ sec.map_id # Some(map_id)
       THEN /\ ret' = Ret("sec.remove", key, None,
                          "Key used with wrong map instance in SecondaryMap")
            /\ UNCHANGED sec
       ELSE IF sec_get(key) = None
       THEN /\ ret' = Ret("sec.remove", key, None, "ok")
            /\ UNCHANGED sec
       ELSE /\ sec' = [sec EXCEPT !.slots[key.index + 1] = None,
                                  !.num_elems = @ - 1]
            /\ ret' = Ret("sec.remove", key, sec_get(key), "ok")
    /\ UNCHANGED primary_vars

\* a clear that empties the slots and leaves the element count
SecClear_keeps_num_elems ==
    /\ sec' = [slots |-> <<>>, num_elems |-> sec.num_elems, map_id |-> None]
    /\ ret' = Ret("sec.clear", NoKey, None, "ok")
    /\ UNCHANGED primary_vars

\* SecondaryMap::clear()
SecClear ==
    /\ sec' = [slots |-> <<>>, num_elems |-> 0, map_id |-> None]
    /\ ret' = Ret("sec.clear", NoKey, None, "ok")
    /\ UNCHANGED primary_vars

\* The calls retain makes to f, in the order of slots.iter_mut().enumerate():
\* one for every present cell, with the key rebuilt from the cell's index and
\* stored generation; f keeps the entries whose value is in keep.
retain_calls(keep) ==
    LET present == SelectSeq([i \in 1..sec_len |-> i],
                             LAMBDA i : sec.slots[i] # None)
    IN  [n \in 1..Len(present) |->
            [key  |-> encode_key(present[n] - 1,
                                 sec.slots[present[n]][1].generation),
             keep |-> sec.slots[present[n]][1].value \in keep]]

\* a retain that forgets to decrement num_elems
SecRetain_keeps_num_elems(keep) ==
    /\ sec' = [sec EXCEPT
                  !.slots = [i \in 1..sec_len |->
                                IF sec.slots[i] # None
                                   /\ sec.slots[i][1].value \notin keep
                                THEN None ELSE sec.slots[i]]]
    /\ ret' = Ret("sec.retain", NoKey, Some(retain_calls(keep)), "ok")
    /\ UNCHANGED primary_vars

\* SecondaryMap::retain(f): a cell whose call returns false becomes None and
\* num_elems is decremented for it.
SecRetain(keep) ==
    /\ sec' = [sec EXCEPT
                  !.slots = [i \in 1..sec_len |->
                                IF sec.slots[i] # None
                                   /\ sec.slots[i][1].value \notin keep
                                THEN None ELSE sec.slots[i]],
                  !.num_elems = @ - Cardinality(
                      {i \in 1..sec_len :
                          sec.slots[i] # None
                          /\ sec.slots[i][1].value \notin keep})]
    /\ ret' = Ret("sec.retain", NoKey, Some(retain_calls(keep)), "ok")
    /\ UNCHANGED primary_vars

\* Keys presented to the SecondaryMap: the two keys the map issued last (the
\* key of a recycled slot and the key it replaced are such a pair).
SecKeyInputs == {issued[n] : n \in {Len(issued) - 1, Len(issued)} \ {-1, 0}}

\* The map used with a SecondaryMap beside it: allocate_handle, insert and
\* remove make, retire and recycle keys (each handle is inserted, with the
\* value 0, before the next is allocated); the SecondaryMap's own operations
\* take the keys issued last.
NextSecondary ==
    \/ handles = {} /\ AllocateHandle
    \/ \E h \in handles : Insert(h, 0)
    \/ \E key \in KeyInputs \ (ForeignKeys \cup {NoKey}) : Remove(key)
    \/ \E key \in SecKeyInputs, value \in SecValues : SecInsert(key, value)
    \/ \E key \in SecKeyInputs : SecRemove(key)
    \/ \E keep \in SUBSET SecValues : SecRetain(keep)
    \/ SecClear

SpecSecondary == Init /\ [][NextSecondary]_vars

\* ----------------------------------------------------------------- retain
\* DeferredMap::retain(f): every Occupied slot is visited in index order; one
\* whose call returns false is removed as remove does it (value dropped,
\* Occupied -> Vacant with the generation bump, pushed on the free list,
\* num_elems decremented).  f keeps the entries whose value is in keep.
\* st carries the fields of the map and the history of what was removed.
RetainStep_no_link(st, index, keep) ==
    LET slot == st.slots[index + 1]
    IN  IF is_occupied(slot) /\ slot.u \notin keep
        THEN [slots     |-> [st.slots EXCEPT ![index + 1] =
                                RemoveSlot(slot, st.free_head)],
              free_head |-> st.free_head,
              num_elems |-> u32_dec(st.num_elems),
              removed   |-> st.removed
                               \cup {encode_key(index, generation(slot))},
              vacated   |-> Vacate(st.vacated, index)]
        ELSE st

RetainStep(st, index, keep) ==
    LET slot == st.slots[index + 1]
    IN  IF is_occupied(slot) /\ slot.u \notin keep
        THEN [slots     |-> [st.slots EXCEPT ![index + 1] =
                                RemoveSlot(slot, st.free_head)],
              free_head |-> index,
              num_elems |-> u32_dec(st.num_elems),
              removed   |-> st.removed
                               \cup {encode_key(index, generation(slot))},
              vacated   |-> Vacate(st.vacated, index)]
        ELSE st

RECURSIVE retain_from(_, _, _)
retain_from(st, index, keep) ==
    IF index >= Len(st.slots) THEN st
    ELSE retain_from(RetainStep(st, index, keep), index + 1, keep)

Retain(keep) ==
    /\ LET st == retain_from([slots |-> slots, free_head |-> free_head,
                              num_elems |-> num_elems, removed |-> removed,
                              vacated |-> vacated], 1, keep)
       IN  /\ slots' = st.slots
           /\ free_head' = st.free_head
           /\ num_elems' = st.num_elems
           /\ removed' = st.removed
           /\ vacated' = st.vacated
    /\ ret' = Ret("retain", NoKey, Some(keep), "ok")
    /\ UNCHANGED <<debug_assertions, handles, issued, last_gen>>
    /\ UNCHANGED others

\* The map filled, filtered and refilled.
NextRetain ==
    \/ AllocateHandle
    \/ \E h \in handles, value \in Values : Insert(h, value)
    \/ \E keep \in SUBSET Values : Retain(keep)

SpecRetain == Init /\ [][NextRetain]_vars

\* -------------------------------------------------------------- key codec
\* utils.rs works on machine words.  A word is the sequence of its bits,
\* least significant first: 32 of them for a u32, 64 for a u64.
u32_of(ones) == [i \in 1..32 |-> IF i \in ones THEN 1 ELSE 0]

\* `x as u64` of a u32
as_u64(x) == [i \in 1..64 |-> IF i <= 32 THEN x[i] ELSE 0]

\* `x as u32` of a u64
as_u32(x) == [i \in 1..32 |-> x[i]]

\* `x << n` and `x >> n` of a u64
shl(x, n) == [i \in 1..64 |-> IF i > n THEN x[i - n] ELSE 0]
shr(x, n) == [i \in 1..64 |-> IF i + n <= 64 THEN x[i + n] ELSE 0]

\* `x | y` of two u64
bitor(x, y) == [i \in 1..64 |-> IF x[i] = 1 \/ y[i] = 1 THEN 1 ELSE 0]

\* an encoding that shifts the generation by 16 only
encode_key_shl16(index, gen) ==
    bitor(shl(as_u64(gen), 16), as_u64(index))

\* utils::encode_key: ((generation as u64) << 32) | (index as u64)
encode_key_u64(index, gen) ==
    bitor(shl(as_u64(gen), 32), as_u64(index))

\* utils::decode_key: (key as u32, (key >> 32) as u32)
decode_key(key) == <<as_u32(key), as_u32(shr(key, 32))>>

\* Handle::new(key), Handle::key()
Handle_new(key) == [key |-> key]
Handle_key(h) == h.key

\* Handle::index() and Handle::generation() delegate to the key: the index
\* is the low half of the key and the generation the high half.
Handle_index(h) == as_u32(h.key)
Handle_generation(h) == as_u32(shr(h.key, 32))

\* The u32 values given to the codec: 0, 1, 2^15, 2^16, 2^31 and u32::MAX.
U32Inputs == {u32_of(ones) : ones \in {{}, {1}, {16}, {17}, {32}, 1..32}}

InitCodec ==
    /\ slots = <<Sentinel>>
    /\ free_head = 1
    /\ num_elems = 0
    /\ debug_assertions \in BOOLEAN
    /\ handles = {}
    /\ issued = <<>>
    /\ removed = {}
    /\ vacated = <<>>
    /\ last_gen = <<>>
    /\ ret = Ret("new", NoKey, None, "ok")
    /\ map_id = 0
    /\ NEXT_MAP_ID = 1
    /\ clone = NoMap
    /\ sec = NewSecondary
    /\ codec \in [index : U32Inputs, generation : U32Inputs,
                   key : {None}, handle : {None}, decoded : {None}]
    /\ snap = NoSnap

\* what a run of the codec leaves alone
codec_frame == <<slots, free_head, num_elems, debug_assertions, handles,
                 issued, removed, vacated, last_gen, ret, map_id,
                 NEXT_MAP_ID, clone, sec, snap>>

\* let raw = encode_key(index, generation)
EncodeKey ==
    /\ codec # NoCodec
    /\ codec.key = None
    /\ codec' = [codec EXCEPT
                    !.key = Some(encode_key_u64(codec.index, codec.generation))]
    /\ UNCHANGED codec_frame

\* Handle::new(raw)
NewHandle ==
    /\ codec # NoCodec
    /\ codec.key # None
    /\ codec.handle = None
    /\ codec' = [codec EXCEPT !.handle = Some(Handle_new(codec.key[1]))]
    /\ UNCHANGED codec_frame

\* decode_key(key)
DecodeKey ==
    /\ codec # NoCodec
    /\ codec.key # None
    /\ codec.decoded = None
    /\ codec' = [codec EXCEPT !.decoded = Some(decode_key(codec.key[1]))]
    /\ UNCHANGED codec_frame

NextCodec == EncodeKey \/ NewHandle \/ DecodeKey

SpecCodec == InitCodec /\ [][NextCodec]_vars

\* ------------------------------------------------------------------ serde
\* The serialized form of a slot: its version word and an `inner` enum value,
\* <<"Occupied", value>>, <<"Vacant", next_free>> or <<"Reserved">>.
SlotInner(slot) ==
    IF is_occupied(slot) THEN <<"Occupied", slot.u>>
    ELSE IF is_reserved(slot) THEN <<"Reserved">>
    ELSE <<"Vacant", slot.u>>

\* Serialize for Slot
serialize(slot) == [version |-> slot.version, inner |-> SlotInner(slot)]

SerdeOk(slot) == [ok |-> TRUE, slot |-> slot]
SerdeErr(msg) == [ok |-> FALSE, err |-> msg]

\* the match of Deserialize on (&helper.inner, helper.version & 0b11)
StateMatchesInner(helper) ==
    \/ helper.inner[1] = "Occupied" /\ helper.version.st = OCCUPIED
    \/ helper.inner[1] = "Vacant" /\ helper.version.st = VACANT
    \/ helper.inner[1] = "Reserved" /\ helper.version.st = RESERVED

\* a deserializer that builds the slot without looking at the state bits
deserialize_unchecked(helper) ==
    SerdeOk([version |-> helper.version,
             u |-> IF helper.inner[1] = "Reserved" THEN 0
                   ELSE helper.inner[2]])

\* Deserialize for Slot
deserialize(helper) ==
    IF ~StateMatchesInner(helper)
    THEN SerdeErr("Slot version and content mismatch")
    ELSE SerdeOk([version |-> helper.version,
                  u |-> IF helper.inner[1] = "Reserved" THEN 0
                        ELSE helper.inner[2]])

\* Slots handed to the serializer: each state the map puts a slot in, at
\* generations 0..MaxAllocs, with a value, or a link into 0..MaxAllocs.
SerdeSlots ==
    {[version |-> Version(g, st), u |-> u] :
        g \in 0..MaxAllocs, st \in {VACANT, RESERVED, OCCUPIED},
        u \in 0..MaxAllocs}

\* Serialized slots handed to the deserializer that no serializer wrote:
\* any state bits with any variant.
SerdeForged ==
    {[version |-> Version(g, st), inner |-> inner] :
        g \in 0..1, st \in 0..3,
        inner \in {<<"Occupied", v>> : v \in Values}
                   \cup {<<"Vacant", n>> : n \in 0..MaxAllocs}
                   \cup {<<"Reserved">>}}

InitSerde ==
    /\ slots = <<Sentinel>>
    /\ free_head = 1
    /\ num_elems = 0
    /\ debug_assertions \in BOOLEAN
    /\ handles = {}
    /\ issued = <<>>
    /\ removed = {}
    /\ vacated = <<>>
    /\ last_gen = <<>>
    /\ ret = Ret("new", NoKey, None, "ok")
    /\ map_id = 0
    /\ NEXT_MAP_ID = 1
    /\ clone = NoMap
    /\ sec = NewSecondary
    /\ codec = NoCodec
    /\ snap \in {[slot |-> Some(slot), ser |-> None, de |-> None] :
                     slot \in SerdeSlots}
               \cup {[slot |-> None, ser |-> Some(helper), de |-> None] :
                        helper \in SerdeForged}

\* what serde leaves alone
serde_frame == <<slots, free_head, num_elems, debug_assertions, handles,
                 issued, removed, vacated, last_gen, ret, map_id,
                 NEXT_MAP_ID, clone, sec, codec>>

\* serde_json::to_string(&slot)
SerializeSlot ==
    /\ snap # NoSnap
    /\ snap.slot # None
    /\ snap.ser = None
    /\ snap' = [snap EXCEPT !.ser = Some(serialize(snap.slot[1]))]
    /\ UNCHANGED serde_frame

\* serde_json::from_str(&serialized)
DeserializeSlot ==
    /\ snap # NoSnap
    /\ snap.ser # None
    /\ snap.de = None
    /\ snap' = [snap EXCEPT !.de = Some(deserialize(snap.ser[1]))]
    /\ UNCHANGED serde_frame

NextSerde == SerializeSlot \/ DeserializeSlot

SpecSerde == InitSerde /\ [][NextSerde]_vars

\* ------------------------------------------------------- claim vocabulary
\* Keys the properties range over: every index up to one past the longest
\* array, and generations around 0, around the 30-bit maximum and beyond it.
KeyGens == (0..(MaxAllocs + 1))
               \cup {GenModulus - 2, GenModulus - 1, GenModulus}
Keys == {encode_key(i, g) : i \in 0..(MaxAllocs + 2), g \in KeyGens}

Indices == 0..(slots_len - 1)
RealIndices == 1..(slots_len - 1)
IssuedKeys == {issued[n] : n \in 1..Len(issued)}

\* The validity condition of the data model, written without get
Valid(key) ==
    /\ key.index \in Indices
    /\ SlotAt(key.index).version.st = OCCUPIED
    /\ SlotAt(key.index).version.gen = key.generation

\* A handle whose slot is still Reserved for it
Outstanding(h) ==
    /\ h.key.index \in RealIndices
    /\ SlotAt(h.key.index).version = Version(h.key.generation, RESERVED)

OccupiedCount == Cardinality({i \in RealIndices : is_occupied(SlotAt(i))})

\* ---------------------------------------------------------------------- C1
\* C1: in every reachable state and for every key, get, get_mut and
\* contains_key report a value exactly when the index is inside the slot
\* array, the slot is Occupied and its generation equals the key's; the
\* value reported is the slot's; a lookup that was made returned accordingly;
\* and the key of a handle whose slot is still Reserved reports absent.
C1_KeyValidity ==
    /\ \A key \in Keys \cup IssuedKeys :
          /\ (get(key) # None) <=> Valid(key)
          /\ (get_mut(key) # None) <=> Valid(key)
          /\ contains_key(key) <=> Valid(key)
          /\ Valid(key) => /\ get(key) = Some(SlotAt(key.index).u)
                           /\ get_mut(key) = Some(SlotAt(key.index).u)
    /\ ret.op = "get" => ((ret.val # None) <=> Valid(ret.key))
    /\ ret.op = "get_mut" => ((ret.val # None) <=> Valid(ret.key))
    /\ ret.op = "contains_key" => ((ret.outcome = "true") <=> Valid(ret.key))
    /\ \A h \in handles :
          Outstanding(h) => /\ get(h.key) = None
                            /\ get_mut(h.key) = None
                            /\ ~contains_key(h.key)

\* A get has just resolved a key while another handle is still outstanding
\* and its key has no value.
C1_Witness ==
    /\ ret.op = "get"
    /\ ret.val # None
    /\ \E h \in handles : Outstanding(h) /\ get(h.key) = None

\* ---------------------------------------------------------------------- C2
\* C2: once remove(k) has returned a value, get(k), get_mut(k),
\* contains_key(k) and remove(k) (whose test is Valid(k)) report absent in
\* every later state.
C2_RemovedKeyStaysAbsent ==
    \A k \in removed :
        /\ get(k) = None
        /\ get_mut(k) = None
        /\ ~contains_key(k)
        /\ ~Valid(k)

\* ---------------------------------------------------------------------- C3
\* C3: in every reachable state len() is the number of Occupied slots other
\* than the sentinel, and is_empty() holds exactly when there is none.
C3_LenCountsOccupied ==
    /\ len = OccupiedCount
    /\ is_empty <=> (OccupiedCount = 0)

\* The same in builds with debug_assertions.
Debug_LenCountsOccupied == debug_assertions => C3_LenCountsOccupied

NextSkippingZero(g) == IF g = GenModulus - 1 THEN 1 ELSE g + 1

C6_HandlesUnique ==
    \A m, n \in 1..Len(issued) : m # n => issued[m] # issued[n]

\* ---------------------------------------------------------------------- C7
\* C7: insert(handle, value) on a slot that is Reserved with the handle's
\* generation makes that slot Occupied at the same generation holding value,
\* increases len() by exactly 1, changes no other slot and not the free
\* list, and afterwards the handle's key resolves to value; this holds for
\* every order in which outstanding handles are inserted.
C7_InsertOccupiesReservedSlot ==
    [][(ret'.op = "insert" /\ HandleChecks(ret'.key))
          => LET i == ret'.key.index
             IN  /\ ret'.outcome = "ok"
                 /\ ret'.val # None
                 /\ slots'[i + 1].version
                      = Version(ret'.key.generation, OCCUPIED)
                 /\ Some(slots'[i + 1].u) = ret'.val
                 /\ len' = len + 1
                 /\ Len(slots') = slots_len
                 /\ \A j \in Indices \ {i} : slots'[j + 1] = SlotAt(j)
                 /\ free_head' = free_head
                 /\ \A key \in Keys \cup IssuedKeys :
                       /\ key = ret'.key => get(key)' = ret'.val
                       /\ key # ret'.key => get(key)' = get(key)]_vars

\* A handle allocated later has been inserted while an older handle is
\* still outstanding; the inserted key resolves to the value.
C7_Witness ==
    /\ ret.op = "insert"
    /\ ret.outcome = "ok"
    /\ get(ret.key) = ret.val
    /\ ret.val # None
    /\ len >= 1
    /\ \E h \in handles : Outstanding(h) /\ h.key.index < ret.key.index

Debug_LifoReuse ==
    [][debug_assertions =>
         (ret'.op = "allocate_handle"
            => IF vacated # <<>>
               THEN /\ ret'.key.index = vacated[Len(vacated)]
                    /\ ret'.outcome = "reused"
               ELSE /\ ret'.key.index = slots_len
                    /\ ret'.outcome = "appended")]_vars

\* ---------------------------------------------------------------------- C9
\* C9: release_handle(handle) on a slot Reserved with the handle's
\* generation leaves the slot Vacant with the generation advanced by 1,
\* linked in front of the old free list head, and makes it the head, so
\* that an allocate_handle that follows returns the same index with the
\* advanced generation; len(), capacity(), every other slot and what every
\* key resolves to are unchanged.
C9_ReleaseFrame ==
    [][LET i == ret'.key.index
       IN  /\ (ret'.op = "release_handle" /\ ret'.outcome = "ok")
                 => /\ HandleChecks(ret'.key)
                    /\ slots'[i + 1].version
                         = Version((ret'.key.generation + 1) % GenModulus,
                                   VACANT)
                    /\ slots'[i + 1].u = free_head
                    /\ free_head' = i
                    /\ len' = len
                    /\ capacity' = capacity
                    /\ \A j \in Indices \ {i} : slots'[j + 1] = SlotAt(j)
                    /\ \A key \in Keys \cup IssuedKeys : get(key)' = get(key)
           /\ (ret.op = "release_handle" /\ ret.outcome = "ok"
                 /\ ret'.op = "allocate_handle")
                 => /\ ret'.outcome = "reused"
                    /\ ret'.key.index = ret.key.index
                    /\ ret'.key.generation
                         = (ret.key.generation + 1) % GenModulus
                    /\ len' = len
                    /\ capacity' = capacity]_vars

\* A handle has been released while a value is stored under another key,
\* and allocate_handle has then returned the released index again with the
\* next generation; len() still counts the one stored value.
C9_Witness ==
    /\ ret.op = "allocate_handle"
    /\ ret.outcome = "reused"
    /\ Len(issued) >= 2
    /\ \E n \in 1..(Len(issued) - 1) :
          /\ issued[n].index = ret.key.index
          /\ issued[n].generation + 1 = ret.key.generation
    /\ len = 1
    /\ OccupiedCount = 1
    /\ removed = {}
    /\ capacity = 2

\* --------------------------------------------------------------------- C10
\* Indices on the free list: from free_head along next_free while inside
\* the array, at most n links.
RECURSIVE FreeChain(_, _)
FreeChain(i, n) ==
    IF n = 0 \/ i >= slots_len THEN {}
    ELSE {i} \cup FreeChain(SlotAt(i).u, n - 1)

\* C10: index 0 is a permanent sentinel: no handle returned by
\* allocate_handle has index 0, the free list never contains index 0, and
\* get, remove (whose test is Valid) and contains_key of any key with index
\* 0 report absent.
C10_SentinelNeverAddressed ==
    /\ \A k \in IssuedKeys : k.index # 0
    /\ 0 \notin FreeChain(free_head, slots_len)
    /\ \A key \in Keys :
          key.index = 0 => /\ get(key) = None
                           /\ ~contains_key(key)
                           /\ ~Valid(key)

\* The same in builds with debug_assertions.
Debug_SentinelNeverAddressed == debug_assertions => C10_SentinelNeverAddressed

\* --------------------------------------------------------------------- C11
\* Keys to probe a state with: every key the map issued, the keys it never
\* issued, the sentinel key and the key one past the slot array.
ProbeKeys ==
    IssuedKeys \cup ForeignKeys \cup {NoKey, encode_key(slots_len, 0)}

\* C11: for every key, the keys the map never issued included (an index
\* past the slot array, a generation no slot can hold), get, get_mut and
\* contains_key report absent when the key is not valid; a lookup or a
\* remove that was made came back without failing; and a remove of a key
\* that is not valid returns None and leaves the slots, the free list and
\* len() as they were.
C11_InvalidKeysDegradeToAbsent ==
    /\ [](\A key \in ProbeKeys :
              ~Valid(key) => /\ get(key) = None
                             /\ get_mut(key) = None
                             /\ ~contains_key(key))
    /\ [][
       /\ ret'.op \in {"get", "get_mut", "remove"} => ret'.outcome = "ok"
       /\ ret'.op = "contains_key" => ret'.outcome \in {"true", "false"}
       /\ (ret'.op = "remove" /\ ~Valid(ret'.key))
              => /\ ret'.val = None
                 /\ UNCHANGED <<slots, free_head, num_elems>>
                 /\ len' = len
                 /\ \A k \in IssuedKeys : get(k)' = get(k)]_vars

\* remove has just been called with a key of slot 1 whose generation no
\* slot can hold, while slot 1 held a value: it returned None and the value
\* is still there.
C11_Witness ==
    /\ ret = Ret("remove", encode_key(1, GenModulus), None, "ok")
    /\ slots_len > 1
    /\ is_occupied(SlotAt(1))
    /\ num_elems = 1

\* --------------------------------------------------------------------- C12
\* C12: insert or release_handle called with a handle whose addressed slot
\* is not Reserved is rejected before the slot is touched: nothing is
\* stored, and the slots (so every stored value and every version), the
\* free list and len() are as before.
C12_MisuseRejected ==
    [][(/\ ret'.op \in {"insert", "release_handle"}
        /\ handles' # handles
        /\ ret'.key.index < slots_len
        /\ ~is_reserved(SlotAt(ret'.key.index)))
          => /\ ret'.val = None
             /\ ret'.outcome \notin {"ok", "unchecked"}
             /\ UNCHANGED <<slots, free_head, num_elems>>]_vars

\* The same in builds with debug_assertions.
Debug_MisuseRejected ==
    [][debug_assertions
          => ((/\ ret'.op \in {"insert", "release_handle"}
               /\ handles' # handles
               /\ ret'.key.index < slots_len
               /\ ~is_reserved(SlotAt(ret'.key.index)))
                 => /\ ret'.val = None
                    /\ ret'.outcome \notin {"ok", "unchecked"}
                    /\ UNCHANGED <<slots, free_head, num_elems>>)]_vars

\* --------------------------------------------------------------------- C13
\* The class the claim gives a misused handle
MisuseClass(key) ==
    IF key.index = 0 \/ key.index >= slots_len THEN "InvalidHandle"
    ELSE IF generation(SlotAt(key.index)) # key.generation
    THEN "GenerationMismatch"
    ELSE IF ~is_reserved(SlotAt(key.index)) THEN "HandleAlreadyUsed"
    ELSE "none"

\* The class a rejection of insert or release_handle reports
ReportedClass(outcome) ==
    IF outcome \in {"Invalid handle: sentinel index",
                    "Invalid handle: index out of bounds"}
    THEN "InvalidHandle"
    ELSE IF outcome = "Generation mismatch" THEN "GenerationMismatch"
    ELSE IF outcome = "Handle already used or invalid state"
    THEN "HandleAlreadyUsed"
    ELSE "none"

\* C13: insert or release_handle with a misused handle reports its class,
\* decided in the order index, generation, state: InvalidHandle for index 0
\* or an index outside the array, else GenerationMismatch when the
\* generations differ (also when the slot is not Reserved), else
\* HandleAlreadyUsed when the slot is not Reserved.
C13_MisuseClassifiedInOrder ==
    [][(/\ ret'.op \in {"insert", "release_handle"}
        /\ handles' # handles
        /\ ret'.outcome # WrongMapMessage)
          => ReportedClass(ret'.outcome) = MisuseClass(ret'.key)]_vars

\* The same in builds with debug_assertions.
Debug_MisuseClassifiedInOrder ==
    [][(/\ debug_assertions
        /\ ret'.op \in {"insert", "release_handle"}
        /\ handles' # handles
        /\ ret'.outcome # WrongMapMessage)
          => ReportedClass(ret'.outcome) = MisuseClass(ret'.key)]_vars

\* In a build with debug_assertions a handle was rejected for its generation
\* although its slot was not Reserved either.
Debug_MisuseWitness ==
    /\ debug_assertions
    /\ ret.op \in {"insert", "release_handle"}
    /\ ret.outcome = "Generation mismatch"
    /\ ~is_reserved(SlotAt(ret.key.index))

\* --------------------------------------------------------------------- C14
\* The handle an insert or release_handle step has consumed
Consumed(h) == h \in handles /\ h \notin handles'

\* C14: in a build with debug_assertions the map and its clone carry
\* different map ids, both below NEXT_MAP_ID; clone and clone_from give the
\* clone the id NEXT_MAP_ID, which no instance has had, and advance it; and
\* insert or release_handle on the clone with a handle of another instance
\* fails with "Handle used with wrong map instance" and changes no slot,
\* free list or count of either map.
C14_WrongMapInstanceRejected ==
    /\ [](debug_assertions
            => /\ map_id < NEXT_MAP_ID
               /\ clone # NoMap => /\ clone.map_id # map_id
                                   /\ clone.map_id < NEXT_MAP_ID)
    /\ [][debug_assertions
            => /\ ret'.op \in {"clone", "clone_from"}
                  => /\ clone'.map_id = NEXT_MAP_ID
                     /\ NEXT_MAP_ID' = NEXT_MAP_ID + 1
                     /\ map_id' = map_id
               /\ \A h \in handles :
                    (/\ ret'.op \in {"clone.insert", "clone.release_handle"}
                     /\ Consumed(h)
                     /\ h.map_id # clone.map_id)
                       => /\ ret'.outcome = WrongMapMessage
                          /\ ret'.val = None
                          /\ UNCHANGED <<clone, slots, free_head,
                                         num_elems>>]_vars

\* In a build with debug_assertions the handle of the map's Reserved slot 1
\* has just been refused by the clone_from target, whose slot 1 is Reserved
\* at the handle's generation: only the map id tells the two apart.
C14_Witness ==
    /\ debug_assertions
    /\ ret.op \in {"clone.insert", "clone.release_handle"}
    /\ ret.outcome = WrongMapMessage
    /\ clone.map_id = 2
    /\ Len(clone.slots) > 1
    /\ clone.slots[2].version = Version(ret.key.generation, RESERVED)
    /\ ret.key.index = 1

\* --------------------------------------------------------------------- C15
\* What the claim requires of a sequence of (key, value) pairs
YieldsOccupiedInOrder(pairs) ==
    /\ \A n \in 1..Len(pairs) :
          /\ pairs[n][1].index \in RealIndices
          /\ is_occupied(SlotAt(pairs[n][1].index))
          /\ get(pairs[n][1]) = Some(pairs[n][2])
    /\ \A m, n \in 1..Len(pairs) :
          m < n => pairs[m][1].index < pairs[n][1].index
    /\ \A i \in RealIndices :
          is_occupied(SlotAt(i))
              => \E n \in 1..Len(pairs) : pairs[n][1].index = i
    /\ Len(pairs) = len

\* C15: iter() and iter_mut() yield exactly one pair per Occupied slot, by
\* increasing index, never the sentinel, a Vacant or a Reserved slot; the
\* number of pairs is len(); and every yielded key resolves to the yielded
\* value.
C15_IterYieldsOccupied ==
    /\ YieldsOccupiedInOrder(iter)
    /\ YieldsOccupiedInOrder(iter_mut)

\* The same in builds with debug_assertions.
Debug_IterYieldsOccupied == debug_assertions => C15_IterYieldsOccupied

\* A build with debug_assertions where iter() yields one pair and passes
\* over a Reserved and a Vacant slot.
Debug_IterWitness ==
    /\ debug_assertions
    /\ Len(iter) = 1
    /\ \E i, j \in RealIndices :
          is_reserved(SlotAt(i)) /\ is_vacant(SlotAt(j))

\* --------------------------------------------------------------------- C16
\* C16: right after clear(), len() is 0, capacity() is 0, the free list is
\* empty (free_head is one past the array, which holds the sentinel alone)
\* and every key issued before reports absent through get and
\* contains_key; a remove that follows returns None and an allocate_handle
\* that follows appends at index 1.
C16_ClearEmptiesTheMap ==
    /\ [](ret.op = "clear"
            => /\ len = 0
               /\ is_empty
               /\ capacity = 0
               /\ slots = <<Sentinel>>
               /\ free_head = slots_len
               /\ \A k \in IssuedKeys :
                     get(k) = None /\ ~contains_key(k) /\ ~Valid(k))
    /\ [][ret.op = "clear"
            => /\ ret'.op = "remove" => ret'.val = None
               /\ ret'.op = "allocate_handle"
                     => /\ ret'.outcome = "appended"
                        /\ ret'.key.index = 1
                        /\ capacity' = 1]_vars

\* clear() has just been called on a map that had issued two handles, one
\* of them consumed.
C16_Witness ==
    /\ ret.op = "clear"
    /\ Len(issued) = 2
    /\ Cardinality(handles) = 1

MapWrites == {"get_mut", "insert", "remove", "release_handle", "clear"}
CloneWrites == {"clone.get_mut", "clone.insert", "clone.remove",
                "clone.release_handle", "clone.clear"}

\* C18: right after clone() (and clone_from) every key resolves to the same
\* value in the map and in the clone and the two len() are equal; a write
\* to the map through get_mut, insert, remove, release_handle or clear
\* leaves every lookup and len() of the clone as they were, and a write to
\* the clone leaves those of the map.
C18_CloneIsIndependent ==
    /\ [](ret.op \in {"clone", "clone_from"}
            => /\ \A k \in ProbeKeys : clone_get(k) = get(k)
               /\ clone.num_elems = len
               /\ Len(clone.slots) - 1 = capacity)
    /\ [][/\ (ret'.op \in MapWrites /\ clone # NoMap)
              => /\ \A k \in ProbeKeys : clone_get(k)' = clone_get(k)
                 /\ clone'.num_elems = clone.num_elems
                 /\ clone' = clone
          /\ ret'.op \in CloneWrites
              => /\ \A k \in ProbeKeys : get(k)' = get(k)
                 /\ len' = len
                 /\ UNCHANGED <<slots, free_head, num_elems>>]_vars

\* A value has just been written through get_mut on the clone: the key
\* resolves in both maps, to different values.
C18_Witness ==
    /\ ret.op = "clone.get_mut"
    /\ ret.val # None
    /\ get(ret.key) # None
    /\ clone_get(ret.key) # get(ret.key)

\* ------------------------------------------------------------------- C19
\* The cell of the SecondaryMap that a key's index selects, None when the
\* index is beyond the Vec.
SecCell(key) == IF key.index >= sec_len THEN None ELSE SecSlotAt(key.index)

SecInsertPost(key, value) ==
    LET before == SecCell(key)
        after  == sec'.slots[key.index + 1]
    IN  /\ before = None =>
              /\ ret'.val = None
              /\ after = Some(SecSlot(value, key.generation))
              /\ sec_elems' = sec_elems + 1
        /\ before # None /\ key.generation = before[1].generation =>
              /\ ret'.val = Some(before[1].value)
              /\ after = Some(SecSlot(value, key.generation))
              /\ sec_elems' = sec_elems
        /\ before # None /\ key.generation > before[1].generation =>
              /\ ret'.val = None
              /\ after = Some(SecSlot(value, key.generation))
              /\ \A k \in IssuedKeys :
                    k.index = key.index /\ k.generation < key.generation =>
                        sec_get(k)' = None
              /\ sec_elems' = sec_elems
        /\ before # None /\ key.generation < before[1].generation =>
              /\ ret'.val = None
              /\ after = before
              /\ sec_elems' = sec_elems
        /\ \A i \in 1..sec_len : i # key.index + 1 =>
              sec'.slots[i] = sec.slots[i]

\* C19: SecondaryMap::insert(key, value) on a cell holding (old, g) replaces
\* the value and returns Some(old) when key.generation = g; overwrites value
\* and generation and returns None when key.generation > g, the older key
\* being absent afterwards; returns None and leaves the cell untouched when
\* key.generation < g; len() is unchanged in all three.  On an empty cell it
\* stores the pair, returns None and len() grows by one.  No other cell
\* changes.
C19_SecondaryInsertByGeneration ==
    [][ret'.op = "sec.insert" /\ ret'.outcome = "ok" =>
          \A key \in SecKeyInputs, value \in SecValues :
              ret'.key = key /\ SecInsert(key, value) =>
                  SecInsertPost(key, value)]_vars

\* An insert with an older key has just been ignored: the cell keeps the
\* newer generation and the key is absent.
C19_Witness ==
    /\ ret.op = "sec.insert"
    /\ ret.val = None
    /\ SecCell(ret.key) # None
    /\ SecCell(ret.key)[1].generation > ret.key.generation
    /\ sec_get(ret.key) = None

\* ------------------------------------------------------------------- C20
PrimaryOps == {"allocate_handle", "insert", "release_handle", "remove",
               "get", "get_mut", "contains_key", "clear", "clone",
               "clone_from"}
SecondaryOps == {"sec.insert", "sec.remove", "sec.retain", "sec.clear"}

\* C20: no operation on the DeferredMap changes a SecondaryMap: whatever
\* the map removes and recycles, the SecondaryMap keeps returning the value
\* stored under a key k and reports every other key of the same index (the
\* recycled slot's key k2 among them) absent, and its content and len()
\* change only in its own insert, remove, retain and clear.
C20_SecondaryUnaffectedByPrimary ==
    /\ [](\A k \in IssuedKeys :
             LET cell == SecCell(k)
             IN  /\ cell # None /\ cell[1].generation = k.generation =>
                       sec_get(k) = Some(cell[1].value)
                 /\ cell # None /\ cell[1].generation # k.generation =>
                       sec_get(k) = None /\ ~sec_contains_key(k)
                 /\ cell = None => sec_get(k) = None)
    /\ [][/\ ret'.op \in PrimaryOps =>
               /\ sec' = sec
               /\ \A k \in IssuedKeys : sec_get(k)' = sec_get(k)
          /\ sec' # sec => ret'.op \in SecondaryOps]_vars

\* The map removed k and recycled its slot as k2, which it now holds; the
\* SecondaryMap still returns the value stored under k and reports k2 absent.
C20_Witness ==
    /\ ret.op = "insert"
    /\ get(ret.key) # None
    /\ ~sec_contains_key(ret.key)
    /\ \E k \in IssuedKeys :
          /\ k.index = ret.key.index
          /\ k.generation < ret.key.generation
          /\ get(k) = None
          /\ sec_get(k) # None

\* ------------------------------------------------------------------- C21
\* The key's index is inside the Vec, the cell is present and the stored
\* generation is the key's.
SecExactMatch(key) ==
    /\ key.index < sec_len
    /\ sec.slots[key.index + 1] # None
    /\ sec.slots[key.index + 1][1].generation = key.generation

SecProbeKeys == IssuedKeys \cup {NoKey, encode_key(sec_len, 0)}

\* C21: get, get_mut, contains_key and remove of the SecondaryMap act only
\* on an exact match: they find a value iff the key's index is inside the
\* Vec, the cell is present and its generation equals the key's; remove on
\* an exact match empties the cell, returns the value and decreases len()
\* by 1, and with any other key returns None and changes nothing.
C21_SecondaryExactMatchOnly ==
    /\ [](\A key \in SecProbeKeys :
             /\ sec_get(key) # None <=> SecExactMatch(key)
             /\ sec_get_mut(key) # None <=> SecExactMatch(key)
             /\ sec_contains_key(key) <=> SecExactMatch(key)
             /\ SecExactMatch(key) =>
                   /\ sec_get(key) = Some(sec.slots[key.index + 1][1].value)
                   /\ sec_get_mut(key) = sec_get(key))
    /\ [][ret'.op = "sec.remove" /\ ret'.outcome = "ok" =>
             \A key \in SecKeyInputs : ret'.key = key =>
                 IF SecExactMatch(key)
                 THEN /\ ret'.val = Some(sec.slots[key.index + 1][1].value)
                      /\ sec'.slots[key.index + 1] = None
                      /\ sec_elems' = sec_elems - 1
                      /\ \A i \in 1..sec_len : i # key.index + 1 =>
                            sec'.slots[i] = sec.slots[i]
                 ELSE /\ ret'.val = None
                      /\ sec' = sec]_vars

\* A remove with a key of another generation than the stored one has just
\* returned None and left the cell present.
C21_Witness ==
    /\ ret.op = "sec.remove"
    /\ ret.val = None
    /\ SecCell(ret.key) # None
    /\ SecCell(ret.key)[1].generation # ret.key.generation

\* ------------------------------------------------------------------- C22
\* the indices of the present cells of a Vec<Option<Slot>>
PresentCells(v) == {i \in 1..Len(v) : v[i] # None}

\* C22: SecondaryMap::retain(pred) calls pred exactly once for every present
\* cell, with the key rebuilt from the cell's index and stored generation,
\* removes exactly the cells for which pred returns false, keeps the others
\* with their generation and value, and leaves len() equal to the number of
\* cells kept.
C22_SecondaryRetain ==
    [][ret'.op = "sec.retain" =>
          LET calls == ret'.val[1]
          IN  /\ Len(calls) = Cardinality(PresentCells(sec.slots))
              /\ \A i \in PresentCells(sec.slots) :
                    /\ Cardinality({n \in 1..Len(calls) :
                           calls[n].key = encode_key(i - 1,
                                            sec.slots[i][1].generation)}) = 1
                    /\ \A n \in 1..Len(calls) :
                          calls[n].key.index = i - 1 =>
                              sec'.slots[i] = IF calls[n].keep
                                              THEN sec.slots[i] ELSE None
              /\ \A i \in 1..sec_len :
                    sec.slots[i] = None => sec'.slots[i] = None
              /\ Len(sec'.slots) = sec_len
              /\ sec_elems' = Cardinality(PresentCells(sec'.slots))]_vars

\* retain has just dropped one cell and kept another.
C22_Witness ==
    /\ ret.op = "sec.retain"
    /\ \E n, m \in 1..Len(ret.val[1]) :
          /\ ret.val[1][n].keep
          /\ ~ret.val[1][m].keep
    /\ sec_elems = 1

C24_RetainRemovesRejected ==
    [][/\ ret'.op = "retain" =>
            LET keep == ret'.val[1]
            IN  /\ \A k \in IssuedKeys :
                      /\ get(k) # None /\ get(k)[1] \in keep =>
                            get(k)' = get(k)
                      /\ get(k) # None /\ get(k)[1] \notin keep =>
                            get(k)' = None /\ ~contains_key(k)'
                      /\ get(k) = None => get(k)' = None
                /\ len' = Cardinality({k \in IssuedKeys :
                              get(k) # None /\ get(k)[1] \in keep})
                /\ capacity' = capacity
       /\ ret'.op = "allocate_handle"
          /\ (\E i \in 1..(slots_len - 1) : is_vacant(SlotAt(i))) =>
            /\ ret'.outcome = "reused"
            /\ capacity' = capacity
            /\ \E i \in 1..(slots_len - 1) :
                  ret'.key.index = i /\ is_vacant(SlotAt(i))]_vars

\* retain kept one entry and removed another, and allocate_handle has just
\* reused the freed slot.
C24_Witness ==
    /\ ret.op = "allocate_handle"
    /\ ret.outcome = "reused"
    /\ removed # {}
    /\ len = 1

\* ------------------------------------------------------------------- C25
\* C25 as stated: deserializing a slot fails unless the state bits of the
\* version agree with the payload variant; a Reserved slot never appears in
\* a serialized slot and is not accepted from one; Occupied and Vacant
\* slots round-trip with version and payload preserved.
C25_ReservedNeverPersisted ==
    snap # NoSnap =>
        /\ snap.de # None /\ ~StateMatchesInner(snap.ser[1]) =>
              ~snap.de[1].ok
        /\ snap.slot # None /\ snap.ser # None =>
              snap.ser[1].inner[1] # "Reserved"
        /\ snap.de # None /\ snap.ser[1].inner[1] = "Reserved" =>
              ~snap.de[1].ok
        /\ snap.slot # None /\ snap.de # None
           /\ ~is_reserved(snap.slot[1]) =>
              snap.de[1] = SerdeOk(snap.slot[1])

\* C25 amended: deserializing succeeds iff the state bits agree with the
\* variant (0b11 with Occupied, 0b00 with Vacant, 0b01 with Reserved; 0b10
\* with none) and then keeps the version and the payload; a Reserved slot is
\* serialized as the Reserved variant and is accepted back, with its version
\* preserved and its link reset to 0; Occupied and Vacant slots round-trip
\* with version and payload preserved.
C25_SerdeValidatesStateBits ==
    snap # NoSnap =>
        /\ snap.de # None =>
              /\ snap.de[1].ok <=> StateMatchesInner(snap.ser[1])
              /\ snap.ser[1].version.st = 2 => ~snap.de[1].ok
              /\ snap.de[1].ok =>
                    /\ snap.de[1].slot.version = snap.ser[1].version
                    /\ SlotInner(snap.de[1].slot) = snap.ser[1].inner
        /\ snap.slot # None /\ snap.ser # None =>
              /\ snap.ser[1].version = snap.slot[1].version
              /\ is_reserved(snap.slot[1]) <=>
                    snap.ser[1].inner = <<"Reserved">>
              /\ is_occupied(snap.slot[1]) <=>
                    snap.ser[1].inner = <<"Occupied", snap.slot[1].u>>
              /\ is_vacant(snap.slot[1]) <=>
                    snap.ser[1].inner = <<"Vacant", snap.slot[1].u>>
        /\ snap.slot # None /\ snap.de # None =>
              /\ snap.de[1].ok
              /\ snap.de[1].slot.version = snap.slot[1].version
              /\ ~is_reserved(snap.slot[1]) =>
                    snap.de[1].slot = snap.slot[1]
              /\ is_reserved(snap.slot[1]) => snap.de[1].slot.u = 0

\* A Reserved slot whose link is not 0 has been serialized and accepted back.
C25_Witness ==
    /\ snap # NoSnap
    /\ snap.slot # None
    /\ is_reserved(snap.slot[1])
    /\ snap.slot[1].u # 0
    /\ snap.de # None
    /\ snap.de[1].ok
    /\ is_reserved(snap.de[1].slot)

\* ------------------------------------------------------------------- C26
\* the indices, other than the sentinel, that are slots before and after a
\* step and whose state bits differ
StateChanged ==
    {i \in 1..(slots_len - 1) :
        i < Len(slots') /\ slots'[i + 1].version.st # SlotAt(i).version.st}

\* the state changes a slot may make, each with the operation making it
SlotTransitions ==
    {<<VACANT, RESERVED, "allocate_handle">>,
     <<RESERVED, OCCUPIED, "insert">>,
     <<OCCUPIED, VACANT, "remove">>,
     <<RESERVED, VACANT, "release_handle">>}

TransitionsFollowed ==
    ret'.op # "clear" =>
        /\ Cardinality(StateChanged) <= 1
        /\ \A i \in StateChanged :
              <<SlotAt(i).version.st, slots'[i + 1].version.st, ret'.op>>
                  \in SlotTransitions

\* C26: a slot changes state only Vacant -> Reserved (allocate_handle),
\* Reserved -> Occupied (insert), Occupied -> Vacant (remove) and Reserved ->
\* Vacant (release_handle); no operation takes a slot from Occupied to
\* Reserved or from Vacant to Occupied, and every operation but clear
\* changes the state of at most one slot.
C26_SlotStateTransitions == [][TransitionsFollowed]_vars

\* The same in builds with debug_assertions.
Debug_SlotStateTransitions ==
    [][debug_assertions => TransitionsFollowed]_vars

\* All four transitions are exercised: a slot released and one removed are
\* on the free list while a third is Occupied.
Debug_SlotStateTransitionsWitness ==
    /\ debug_assertions
    /\ ret.op = "release_handle" /\ ret.outcome = "ok"
    /\ removed # {}
    /\ \E i \in 1..(slots_len - 1) : is_occupied(SlotAt(i))

\* ------------------------------------------------------------------- C27
\* the version word of a slot: generation * 4 + state bits
VersionWord(slot) == slot.version.gen * 4 + slot.version.st

\* the slot the last call addressed, before and after the call
Addressed(n) ==
    \A i \in 1..(slots_len - 1) :
        ret'.key.index = i =>
            /\ VersionWord(slots'[i + 1]) = VersionWord(SlotAt(i)) + n
            /\ n \in {1, 2} /\ ret'.op \in {"allocate_handle", "insert"} =>
                  generation(slots'[i + 1]) = generation(SlotAt(i))
            /\ ret'.op \in {"remove", "release_handle"} =>
                  /\ generation(slots'[i + 1]) = generation(SlotAt(i)) + 1
                  /\ state_bits(slots'[i + 1]) = 0

VersionSteps ==
    /\ ret'.op = "allocate_handle" /\ ret'.outcome = "reused" => Addressed(1)
    /\ ret'.op = "allocate_handle" /\ ret'.outcome = "appended" =>
          VersionWord(slots'[Len(slots')]) = 1
    /\ ret'.op = "insert" /\ ret'.outcome \in {"ok", "unchecked"} =>
          Addressed(2)
    /\ ret'.op = "remove" /\ ret'.val # None => Addressed(1)
    /\ ret'.op = "release_handle" /\ ret'.outcome \in {"ok", "unchecked"} =>
          Addressed(3)

StateBitsValid ==
    \A i \in 0..(slots_len - 1) :
        state_bits(SlotAt(i)) \in {VACANT, RESERVED, OCCUPIED}

\* C27: with version = generation * 4 + state bits, allocate_handle adds 1,
\* insert adds 2, remove adds 1 and release_handle adds 3; the state bits
\* of every slot are always 0b00, 0b01 or 0b11, never 0b10; allocate_handle
\* and insert leave the generation unchanged; remove and release_handle add
\* 1 to the generation and reset the state bits to 0b00.
C27_VersionArithmetic == []StateBitsValid /\ [][VersionSteps]_vars

\* The same in builds with debug_assertions.
Debug_VersionArithmetic ==
    /\ [](debug_assertions => StateBitsValid)
    /\ [][debug_assertions => VersionSteps]_vars

\* A slot at generation 2: it was released or removed twice and reserved
\* again, in a build with debug_assertions.
Debug_VersionArithmeticWitness ==
    /\ debug_assertions
    /\ ret.op = "insert" /\ ret.outcome = "ok"
    /\ ret.key.generation = 2

\* ------------------------------------------------------------------- C28
\* A handle used as the API means it to be: its slot is Reserved at the
\* handle's generation, and it is the handle allocate_handle returned for
\* that reservation (a handle kept from before a clear() has a lower id).
Proper(h) ==
    /\ Outstanding(h)
    /\ h.map_id = map_id
    /\ \A h2 \in handles : h2.key = h.key => h2.id <= h.id

\* The map used without misuse of handles, in either build.
NextProper ==
    \/ AllocateHandle
    \/ \E h \in handles, value \in Values : Proper(h) /\ Insert(h, value)
    \/ \E h \in handles : Proper(h) /\ ReleaseHandle(h)
    \/ \E key \in KeyInputs : Remove(key)
    \/ \E key \in LookupInputs, value \in Values : GetMut(key, value)
    \/ Clear

SpecProper == Init /\ [][NextProper]_vars

\* The walk from index i along next_free, at most n links long: the indices
\* visited inside the array, then the value that ended the walk.
RECURSIVE free_walk(_, _)
free_walk(i, n) ==
    IF n = 0 \/ i >= slots_len THEN <<i>>
    ELSE <<i>> \o free_walk(SlotAt(i).u, n - 1)

FreeListExact ==
    LET walk == free_walk(free_head, slots_len)
        body == SubSeq(walk, 1, Len(walk) - 1)
    IN  /\ walk[Len(walk)] = slots_len
        /\ {body[n] : n \in 1..Len(body)}
              = {i \in 1..(slots_len - 1) : is_vacant(SlotAt(i))}
        /\ \A n, m \in 1..Len(body) : body[n] = body[m] => n = m

\* C28: without misuse of handles, the chain from free_head along next_free
\* visits exactly the Vacant slots other than the sentinel, each once, and
\* ends at slots.len(); no Reserved or Occupied slot is on it, and
\* allocate_handle never returns the index of a Reserved or Occupied slot.
C28_FreeListIsTheVacantSlots ==
    /\ []FreeListExact
    /\ [][ret'.op = "allocate_handle" =>
             \A i \in 1..(slots_len - 1) :
                 ret'.key.index = i =>
                     /\ is_vacant(SlotAt(i))
                     /\ ret'.outcome = "reused"]_vars

\* Two slots are on the free list while a third is Occupied.
C28_Witness ==
    /\ Len(free_walk(free_head, slots_len)) = 3
    /\ \E i \in 1..(slots_len - 1) : is_occupied(SlotAt(i))

\* ------------------------------------------------------------------- C29
\* the slots, other than the sentinel, that are Reserved or Occupied
LiveSlots(v) ==
    {i \in 2..Len(v) : v[i].version.st \in {RESERVED, OCCUPIED}}

AppendsOnlyWhenFull ==
    ret'.op = "allocate_handle" =>
        IF \E i \in 1..(slots_len - 1) : is_vacant(SlotAt(i))
        THEN /\ ret'.outcome = "reused"
             /\ capacity' = capacity
        ELSE /\ ret'.outcome = "appended"
             /\ capacity' = capacity + 1
             /\ Cardinality(LiveSlots(slots')) = capacity'

Debug_AppendOnlyWhenNoVacantSlot ==
    [][debug_assertions =>
         /\ AppendsOnlyWhenFull
         /\ ret'.op \in {"insert", "remove"} => capacity' = capacity]_vars

\* The only entry was removed and one was inserted again: capacity() is
\* still 1.
Debug_AppendOnlyWhenNoVacantSlotWitness ==
    /\ debug_assertions
    /\ ret.op = "insert" /\ ret.outcome = "ok"
    /\ removed # {}
    /\ Len(issued) = 2
    /\ len = 1
    /\ capacity = 1

\* ------------------------------------------------------------------- C30
\* A remove that returned a value returned the value the map held under the
\* key, took 1 from len(), and left capacity() and every other key alone.
RemoveEffect ==
    ret'.op = "remove" /\ ret'.val # None =>
        \A k \in KeyInputs :
            ret'.key = k =>
                /\ ret'.val = get(k)
                /\ len' = len - 1
                /\ capacity' = capacity
                /\ \A k2 \in IssuedKeys \ {k} :
                      /\ get(k2)' = get(k2)
                      /\ contains_key(k2)' = contains_key(k2)

\* The value the map holds under a key is the one last stored under it: it
\* is set by the insert that returns the key and by get_mut of the key, and
\* no other call gives the key a value or changes the one it has.
HeldIsLastStored ==
    /\ ret'.op = "insert" /\ ret'.outcome = "ok" =>
          \A k \in IssuedKeys : ret'.key = k => get(k)' = ret'.val
    /\ \A k \in LookupInputs, value \in Values :
          GetMut(k, value) /\ get_mut(k) # None => get(k)' = Some(value)
    /\ \A k \in IssuedKeys :
          get(k)' # None /\ get(k)' # get(k) =>
              ret'.key = k /\ ret'.op \in {"insert", "get_mut"}

\* C30: a successful remove(k) returns exactly the value last stored under
\* k, by the insert that returned k or by the last write through
\* get_mut(k); it decreases len() by exactly 1 and leaves the validity and
\* value of every other key, and capacity(), unchanged.
C30_RemoveReturnsLastStored == [][RemoveEffect /\ HeldIsLastStored]_vars

\* The same in builds with debug_assertions.
Debug_RemoveReturnsLastStored ==
    [][debug_assertions => RemoveEffect /\ HeldIsLastStored]_vars

\* What remove itself does, in every build.
RemoveEffectInEveryBuild == [][RemoveEffect]_vars

\* A remove has returned a value while another key stays valid.
Debug_RemoveReturnsLastStoredWitness ==
    /\ debug_assertions
    /\ ret.op = "remove" /\ ret.val # None
    /\ \E k \in IssuedKeys : k # ret.key /\ get(k) # None

\* --------------------------------------------------------------------- C31
\* A newly created map on which nothing is ever vacated: the caller
\* allocates, inserts with the handles it holds and looks keys up, and calls
\* neither remove nor release_handle nor clear.
NextFresh ==
    \/ AllocateHandle
    \/ \E h \in handles, value \in Values : Insert(h, value)
    \/ \E key \in LookupInputs : Get(key)
    \/ \E key \in LookupInputs : ContainsKey(key)
    \/ \E key \in LookupInputs, value \in Values : GetMut(key, value)

SpecFresh == Init /\ [][NextFresh]_vars

\* C31: on a new map, with no remove or release_handle in between, the n-th
\* allocate_handle returns index n at generation 0: the handles issued are
\* (1, 0), (2, 0), (3, 0), ... in that order, each from a slot that was
\* appended, and the slot array has grown by one slot per call.
C31_FreshAllocationsAreSequential ==
    /\ \A n \in 1..Len(issued) : issued[n] = encode_key(n, 0)
    /\ slots_len = Len(issued) + 1
    /\ free_head = slots_len
    /\ ret.op = "allocate_handle" =>
          /\ ret.key = encode_key(Len(issued), 0)
          /\ ret.outcome = "appended"

\* The third consecutive allocate_handle has just returned, the first two
\* handles having been used to insert in between.
C31_Witness ==
    /\ ret.op = "allocate_handle"
    /\ Len(issued) = 3
    /\ ret.key = encode_key(3, 0)
    /\ Cardinality({i \in RealIndices : is_occupied(SlotAt(i))}) = 2

\* --------------------------------------------------------------------- C32
\* allocate_handle with `self` the clone.  The handle carries the clone's
\* map id; its id pairs it with the handle the map issued in the same round.
CloneAllocateHandle ==
    /\ clone # NoMap
    /\ LET reuse == clone.free_head < clone_len
           index == IF reuse THEN clone.free_head ELSE clone_len
           slot  == IF reuse THEN ReserveSlot(CloneSlotAt(index)) ELSE NewSlot
           raw   == encode_key(index, generation(slot))
       IN  /\ clone' = [clone EXCEPT
                 !.slots = IF reuse THEN CloneSetSlot(index, slot)
                                    ELSE Append(clone.slots, slot),
                 !.free_head = IF reuse THEN CloneSlotAt(index).u
                                        ELSE index + 1]
           /\ handles' = handles \cup {[key |-> raw, id |-> Len(issued),
                                            map_id |-> clone.map_id]}
           /\ ret' = Ret("clone.allocate_handle", raw, None,
                         IF reuse THEN "reused" ELSE "appended")
    /\ UNCHANGED orig_vars

\* The calls the two maps are given in step, and the same calls on the clone
TwinOps == {"allocate_handle", "insert", "remove", "release_handle"}
MirrorOps == {"clone.allocate_handle", "clone.insert", "clone.remove",
              "clone.release_handle"}
MirrorOf(op) ==
    CASE op = "allocate_handle" -> "clone.allocate_handle"
      [] op = "insert" -> "clone.insert"
      [] op = "remove" -> "clone.remove"
      [] op = "release_handle" -> "clone.release_handle"

\* The clone has just been made or refreshed, or has just repeated the
\* map's last call: the map is given the next call.
SourceTurn ==
    /\ clone # NoMap
    /\ ret.op \in {"clone", "clone_from"} \cup MirrorOps

\* The map has just run a call the clone has not yet been given.
CloneTurn == clone # NoMap /\ ret.op \in TwinOps

\* The clone has just been made or refreshed.
JustCloned == clone # NoMap /\ ret.op \in {"clone", "clone_from"}

\* One of the maps has been written without the other.
Diverged ==
    /\ clone # NoMap
    /\ ret.op \in {"clear", "clone.clear", "get_mut", "clone.get_mut"}

\* A handle of the map whose counterpart on the clone the caller holds, and
\* the handles of the clone whose counterpart the map has just consumed.
Paired(h) ==
    /\ clone # NoMap
    /\ h.map_id = map_id
    /\ \E h2 \in handles : h2.id = h.id /\ h2.map_id = clone.map_id
Orphans ==
    IF clone = NoMap THEN {}
    ELSE {h2 \in handles :
            /\ h2.map_id = clone.map_id
            /\ ~\E h \in handles : h.id = h2.id /\ h.map_id = map_id}

\* A map is built, cloned, and then every allocate_handle, insert, remove
\* and release_handle is run on the map and repeated on the clone, each map
\* with the handles it issued itself.  Either map may also be cleared alone,
\* or the clone written through get_mut; the clone is then refreshed with
\* clone_from before the two run in step again.
NextTwin ==
    \/ /\ clone = NoMap \/ SourceTurn
       /\ \A h \in handles : clone # NoMap /\ ~Paired(h)
       /\ clone = NoMap => Len(issued) < MaxAllocs - 1
       /\ AllocateHandle
    \/ \E h \in handles, value \in Values :
          /\ (clone = NoMap /\ value = 0) \/ (SourceTurn /\ Paired(h))
          /\ h.map_id = map_id
          /\ Insert(h, value)
    \/ \E h \in handles :
          /\ clone = NoMap \/ (SourceTurn /\ Paired(h))
          /\ h.map_id = map_id
          /\ ReleaseHandle(h)
    \/ \E key \in KeyInputs :
          /\ clone = NoMap \/ SourceTurn
          /\ contains_key(key)
          /\ Remove(key)
    \/ Clone
    \/ (JustCloned \/ Diverged) /\ Clear
    \/ (JustCloned \/ Diverged) /\ CloneClear
    \/ \E key \in CloneKeyInputs, value \in Values :
          (JustCloned \/ Diverged) /\ CloneGetMut(key, value)
    \/ Diverged /\ CloneFrom
    \/ CloneTurn /\ ret.op = "allocate_handle" /\ CloneAllocateHandle
    \/ \E h2 \in Orphans :
          CloneTurn /\ ret.op = "insert" /\ ret.val # None
              /\ CloneInsert(h2, ret.val[1])
    \/ \E h2 \in Orphans :
          CloneTurn /\ ret.op = "release_handle" /\ CloneReleaseHandle(h2)
    \/ CloneTurn /\ ret.op = "remove" /\ CloneRemove(ret.key)

SpecTwin == Init /\ [][NextTwin]_vars

\* len(), capacity() and the resolution of every key agree on the two maps
ObservablyEqual ==
    /\ clone.num_elems = len
    /\ (IF clone_len = 0 THEN 0 ELSE clone_len - 1) = capacity
    /\ \A key \in Keys \cup IssuedKeys : clone_get(key) = get(key)

\* the clone has just repeated the map's last call and returned what the
\* map returned: the same index and generation, value and outcome
SameResult ==
    /\ ret'.op = MirrorOf(ret.op)
    /\ ret'.key = ret.key
    /\ ret'.val = ret.val
    /\ ret'.outcome = ret.outcome

\* C32: after clone() and after clone_from(), whatever the destination held
\* before, the copy has the map's len() and capacity() and resolves every
\* key as the map does; and when the same sequence of allocate_handle,
\* insert, remove and release_handle is then run on both, every call returns
\* the same index, generation and value on the copy as on the map, and
\* leaves the two observably equal again.
C32_CloneIsObservationallyEquivalent ==
    /\ [](SourceTurn => ObservablyEqual)
    /\ [][CloneTurn /\ ret'.op \in MirrorOps => SameResult]_vars

\* The clone, refreshed by clone_from over contents that differed, has just
\* repeated an allocate_handle that reused a slot of the free list.
C32_Witness ==
    /\ clone # NoMap
    /\ clone.map_id > 1
    /\ ret.op = "clone.allocate_handle"
    /\ ret.outcome = "reused"
    /\ \E h \in handles : Paired(h)

\* --------------------------------------------------------------------- C33
\* The map in an execution that never calls clear(): the other writes of
\* Next and get, in both builds, on keys the map issued.  From a new map
\* MaxAllocs allocations recycle a slot far fewer than 2^30 times.
NextNoClear ==
    \/ AllocateHandle
    \/ \E h \in handles, value \in Values : Insert(h, value)
    \/ \E h \in handles : ReleaseHandle(h)
    \/ \E key \in KeyInputs \ ForeignKeys : Remove(key)
    \/ \E key \in LookupInputs : Get(key)
    \/ \E key \in LookupInputs, value \in Values : GetMut(key, value)

SpecNoClear == Init /\ [][NextNoClear]_vars

\* No (index, generation) is issued twice, so one handle at most is ever
\* consumed per key; the only keys that resolve are keys that were issued,
\* and a key whose value has been removed, or whose handle is still held,
\* resolves to nothing.
OneAllocationPerKey ==
    /\ \A m, n \in 1..Len(issued) : issued[m] = issued[n] => m = n
    /\ \A index \in RealIndices :
          is_occupied(SlotAt(index)) =>
              encode_key(index, generation(SlotAt(index))) \in IssuedKeys
    /\ \A key \in removed : get(key) = None
    /\ \A h \in handles : get(h.key) = None

\* A key begins to resolve only in the insert that consumes the handle with
\* its own index and generation, to the value of that insert; afterwards the
\* value changes only by a write through get_mut of that key.
InstalledByOwnInsert ==
    \A key \in IssuedKeys :
        /\ get(key) = None /\ get(key)' # None =>
              /\ ret'.op = "insert"
              /\ ret'.outcome = "ok"
              /\ ret'.key = key
              /\ get(key)' = ret'.val
              /\ \E h \in handles : h.key = key /\ h \notin handles'
        /\ get(key) # None /\ get(key)' # None /\ get(key)' # get(key) =>
              /\ ret'.op = "get_mut"
              /\ ret'.key = key

\* C33: with no clear() and no generation wrap, a key resolves only to the
\* value stored by the one insert that consumed the handle with the same
\* index and generation (or written since through get_mut of that key), and
\* a get returns nothing else: never a value installed for another
\* allocation of the index.
C33_KeyResolvesToItsOwnInsert ==
    /\ [](OneAllocationPerKey)
    /\ [][InstalledByOwnInsert]_vars
    /\ [](ret.op = "get" => ret.val = get(ret.key))

\* A get of the key of a slot's second allocation has just returned the
\* value of its own insert, while the key of the first allocation, whose
\* value was removed, resolves to nothing.
C33_Witness ==
    /\ ret.op = "get"
    /\ ret.val # None
    /\ \E key \in removed :
          /\ key.index = ret.key.index
          /\ key.generation < ret.key.generation
          /\ get(key) = None

\* --------------------------------------------------------------------- C34
\* The values a slot array holds: one per Occupied slot.
Held(v) == Cardinality({i \in 1..Len(v) : is_occupied(v[i])})

\* Drop for Slot: the value is dropped when the slot is Occupied, and
\* nothing is dropped otherwise.  The number of values dropped.
drop_slot(slot) == IF is_occupied(slot) THEN 1 ELSE 0

\* Dropping the slots of a Vec (Vec::clear, Vec::truncate, dropping the
\* map): each slot is dropped.
drop_slots(v) == Cardinality({i \in 1..Len(v) : drop_slot(v[i]) = 1})

\* Slot::clone_from: with both slots Occupied the value is overwritten by
\* T::clone_from, which gives up what it held; the other three arms assign
\* the union or its next_free, and assigning a union drops nothing.
clone_from_slot_drops(self, source) ==
    IF is_occupied(self) /\ is_occupied(source) THEN 1 ELSE 0

\* Vec::clone_from: the slots past the source's length are truncated
\* (dropped), the others are overwritten by Slot::clone_from.
clone_from_slots_drops(self, source) ==
    Cardinality({i \in 1..Len(self) :
        IF i > Len(source) THEN drop_slot(self[i]) = 1
        ELSE clone_from_slot_drops(self[i], source[i]) = 1})

\* The values held by the two maps together
TotalHeld == Held(slots) + (IF clone = NoMap THEN 0 ELSE Held(clone.slots))

\* The values a call has taken in: the value moved into an insert that
\* wrote it, and the values clone and clone_from made for the copy.
Stored ==
    IF ret'.op \in {"insert", "clone.insert"}
    THEN (IF ret'.val # None THEN 1 ELSE 0)
    ELSE IF ret'.op \in {"clone", "clone_from"} THEN Held(clone'.slots)
    ELSE 0

\* The values a call has given up: the value remove returned, the values
\* clear dropped with the slots, the values clone_from dropped or overwrote
\* in the destination.  insert assigns the ManuallyDrop field and
\* release_handle the next_free field: neither drops.
GivenUp ==
    IF ret'.op \in {"remove", "clone.remove"}
    THEN (IF ret'.val # None THEN 1 ELSE 0)
    ELSE IF ret'.op = "clear" THEN drop_slots(slots)
    ELSE IF ret'.op = "clone.clear" THEN drop_slots(clone.slots)
    ELSE IF ret'.op = "clone_from"
    THEN clone_from_slots_drops(clone.slots, slots)
    ELSE 0

\* Every value that was held or taken in is still held or was given up, and
\* nothing was given up that was not held.
ValuesBalance == TotalHeld + Stored = TotalHeld' + GivenUp

\* C34: every value stored by insert is given up exactly once, returned by
\* remove or dropped by clear, by clone_from over the destination slot or
\* with the map; none is dropped twice and none is left undropped: in every
\* step the values held and taken in are those held afterwards and those
\* given up.  Stated for the build with the handle checks compiled in, where
\* no call acts on a slot through a wrong handle.
C34_EveryValueGivenUpOnce == [][debug_assertions => ValuesBalance]_vars

\* With the handle checks compiled in, every call but clone_from keeps the
\* balance.
Debug_ValuesBalanceButCloneFrom ==
    [][debug_assertions /\ ret'.op # "clone_from" => ValuesBalance]_vars

\* --------------------------------------------------------------------- C35
\* The handles that allocate_handle returned for a slot, by their place in
\* the history; the last of them is the slot's own handle while the slot is
\* Reserved.
IssuedFor(index) == {n \in 1..Len(issued) : issued[n].index = index}
OwnHandle(h, index) ==
    /\ h.map_id = map_id
    /\ h.key = encode_key(index, generation(SlotAt(index)))
    /\ h.id \in IssuedFor(index)
    /\ \A n \in IssuedFor(index) : n <= h.id

\* A Reserved slot is left as it is by every call except clear() and the
\* insert or release_handle that consumes its own handle, and no
\* allocate_handle returns it.
ReservedUntilOwnHandle ==
    \A index \in RealIndices :
        is_reserved(SlotAt(index)) =>
            /\ \/ ret'.op = "clear"
               \/ /\ ret'.op \in {"insert", "release_handle"}
                  /\ \E h \in handles : h \notin handles' /\ OwnHandle(h, index)
               \/ /\ index < slots_len'
                  /\ SlotAt(index)' = SlotAt(index)
            /\ ret'.op = "allocate_handle" => ret'.key.index # index

\* iter() yields no Reserved slot, and reserving a slot adds nothing to
\* len().
ReservedNotObserved ==
    \A n \in 1..Len(iter) :
        /\ iter[n][1].index \in RealIndices
        /\ ~is_reserved(SlotAt(iter[n][1].index))
ReservedNotCounted == ret'.op = "allocate_handle" => len' = len

\* C35: a slot leaves the Reserved state only through insert or
\* release_handle called with its own handle; while that handle is unused
\* the slot stays Reserved at its generation through every other call, is
\* not returned by allocate_handle, is not yielded by iter() and is not
\* counted by len(), until clear().
C35_ReservedUntilOwnHandleUsed ==
    /\ [][ReservedUntilOwnHandle /\ ReservedNotCounted]_vars
    /\ [](ReservedNotObserved)

\* The same, of a caller that uses every handle once and on its own
\* reservation only.
Proper_ReservedUntilOwnHandleUsed ==
    /\ [][ReservedUntilOwnHandle /\ ReservedNotCounted]_vars
    /\ [](ReservedNotObserved /\ len = OccupiedCount)
    /\ [](\A h \in handles : Proper(h) => is_reserved(SlotAt(h.key.index)))

\* A handle was discarded: its slot is still Reserved after the slot
\* allocated after it has been filled and emptied again.
Proper_ReservedUntilOwnHandleUsedWitness ==
    /\ ret.op = "remove"
    /\ ret.val # None
    /\ \E h \in handles :
          /\ Proper(h)
          /\ h.key.index < ret.key.index
          /\ is_reserved(SlotAt(h.key.index))

\* --------------------------------------------------------------------- C36
\* A map that has just been cleared while the caller holds two handles:
\*   h1 = allocate_handle(); h2 = allocate_handle(); clear()
\* on a new map.  The handles with id 1 and 2 were allocated before the
\* clear; every handle issued from here on has a greater id.
InitCleared ==
    /\ slots = <<Sentinel>>
    /\ free_head = 1
    /\ num_elems = 0
    /\ debug_assertions \in BOOLEAN
    /\ handles = {[key |-> encode_key(1, 0), id |-> 1, map_id |-> 0],
                  [key |-> encode_key(2, 0), id |-> 2, map_id |-> 0]}
    /\ issued = <<encode_key(1, 0), encode_key(2, 0)>>
    /\ removed = {}
    /\ vacated = <<>>
    /\ last_gen = <<>>
    /\ ret = Ret("clear", NoKey, None, "ok")
    /\ map_id = 0
    /\ NEXT_MAP_ID = 1
    /\ clone = NoMap
    /\ sec = NewSecondary
    /\ codec = NoCodec
    /\ snap = NoSnap

SpecCleared == InitCleared /\ [][Next]_vars

AllocatedBeforeClear(h) == h.id <= 2

\* the call consumes a handle allocated before the clear
UsesHandleFromBeforeClear ==
    /\ ret'.op \in {"insert", "release_handle"}
    /\ \E h \in handles : h \notin handles' /\ AllocatedBeforeClear(h)

\* the call stored nothing and left the slots, the free list and len()
Rejected ==
    /\ ret'.val = None
    /\ ret'.outcome \notin {"ok", "unchecked"}
    /\ UNCHANGED <<slots, free_head, num_elems>>

\* C36: after clear(), insert or release_handle with a handle allocated
\* before the clear stores no value and changes no slot, also once new
\* handles have been allocated on the cleared map.
C36_HandleFromBeforeClearIsDead ==
    [][UsesHandleFromBeforeClear => Rejected]_vars

\* With the handle checks compiled in, such a handle is rejected as long as
\* the cleared map has not issued its index and generation again.
Debug_HandleFromBeforeClearIsDeadUntilReissued ==
    [][(/\ debug_assertions
        /\ UsesHandleFromBeforeClear
        /\ \A n \in 3..Len(issued) : issued[n] # ret'.key) => Rejected]_vars

\* With the handle checks compiled in, a handle from before the clear has
\* just been refused for its index, a new handle having been allocated on
\* the cleared map.
Debug_HandleFromBeforeClearIsDeadWitness ==
    /\ debug_assertions
    /\ ret = Ret("insert", encode_key(2, 0), None,
                 "Invalid handle: index out of bounds")
    /\ Len(issued) = 3

\* --------------------------------------------------------------------- C37
\* SecondaryMap::iter(): slots.iter().enumerate().filter_map keeps the
\* present cells, in index order, and yields for each the key rebuilt from
\* its index and stored generation, and its value.
sec_iter ==
    LET present == SelectSeq([i \in 1..sec_len |-> i],
                             LAMBDA i : sec.slots[i] # None)
    IN  [n \in 1..Len(present) |->
            <<encode_key(present[n] - 1, sec.slots[present[n]][1].generation),
              sec.slots[present[n]][1].value>>]

\* the map id iter() gives the keys it rebuilds: self.map_id.unwrap_or(0)
sec_iter_map_id == IF sec.map_id = None THEN 0 ELSE sec.map_id[1]

\* C37: in every reachable state of a SecondaryMap len() is the number of
\* present cells; no index resolves under two generations; iter() yields
\* one pair for each present cell and no other, each with a key that get()
\* resolves to the value yielded (in a debug build the key carries the id
\* the SecondaryMap is bound to, so that get() accepts it); and after
\* clear() len() is 0 and every key is absent.
C37_SecondaryMapInvariants ==
    /\ sec_elems = Cardinality(PresentCells(sec.slots))
    /\ \A k1, k2 \in IssuedKeys :
          (/\ k1.index = k2.index
           /\ sec_get(k1) # None
           /\ sec_get(k2) # None) => k1 = k2
    /\ Len(sec_iter) = Cardinality(PresentCells(sec.slots))
    /\ \A i \in PresentCells(sec.slots) :
          Cardinality({n \in 1..Len(sec_iter) :
                          sec_iter[n][1].index = i - 1}) = 1
    /\ \A n \in 1..Len(sec_iter) :
          /\ sec_get(sec_iter[n][1]) = Some(sec_iter[n][2])
          /\ debug_assertions => sec.map_id = Some(sec_iter_map_id)
    /\ ret.op = "sec.clear" =>
          /\ sec_elems = 0
          /\ Len(sec_iter) = 0
          /\ \A key \in IssuedKeys : sec_get(key) = None

\* Two cells are present, one of them under a key the map has since
\* retired, and iter() yields both.
C37_Witness ==
    /\ sec_elems = 2
    /\ Len(sec_iter) = 2
    /\ \E n \in 1..2 : get(sec_iter[n][1]) = None

\* --------------------------------------------------------------------- C38
\* A SecondaryMap whose cell 1 holds a value under the newer of two keys of
\* slot 1, as left on a new map and a new SecondaryMap by
\*   h = allocate_handle(); k0 = insert(h, 0); remove(k0);
\*   h = allocate_handle(); k1 = insert(h, 0); sec.insert(k1, true)
\* k0 is (1, 0) and k1 is (1, 1).
InitSecNewer ==
    /\ slots = <<Sentinel, [version |-> Version(1, OCCUPIED), u |-> 0]>>
    /\ free_head = 2
    /\ num_elems = 1
    /\ debug_assertions \in BOOLEAN
    /\ handles = {}
    /\ issued = <<encode_key(1, 0), encode_key(1, 1)>>
    /\ removed = {encode_key(1, 0)}
    /\ vacated = <<>>
    /\ last_gen = <<1>>
    /\ ret = Ret("sec.insert", encode_key(1, 1), None, "ok")
    /\ map_id = 0
    /\ NEXT_MAP_ID = 1
    /\ clone = NoMap
    /\ sec = [slots |-> <<None, Some(SecSlot(TRUE, 1))>>, num_elems |-> 1,
              map_id |-> IF debug_assertions THEN Some(0) ELSE None]
    /\ codec = NoCodec
    /\ snap = NoSnap

SpecSecNewer == InitSecNewer /\ [][NextSecondary]_vars

\* that start state, as a state of SpecSecondary
SecNewerReached ==
    /\ slots = <<Sentinel, [version |-> Version(1, OCCUPIED), u |-> 0]>>
    /\ free_head = 2
    /\ num_elems = 1
    /\ handles = {}
    /\ issued = <<encode_key(1, 0), encode_key(1, 1)>>
    /\ removed = {encode_key(1, 0)}
    /\ vacated = <<>>
    /\ last_gen = <<1>>
    /\ ret = Ret("sec.insert", encode_key(1, 1), None, "ok")
    /\ sec = [slots |-> <<None, Some(SecSlot(TRUE, 1))>>, num_elems |-> 1,
              map_id |-> IF debug_assertions THEN Some(0) ELSE None]

\* A cell that stays present keeps or raises its generation, and a present
\* cell becomes empty only in remove, retain or clear.
GenerationNeverDecreases ==
    \A i \in PresentCells(sec.slots) :
        IF i <= Len(sec'.slots) /\ sec'.slots[i] # None
        THEN sec'.slots[i][1].generation >= sec.slots[i][1].generation
        ELSE ret'.op \in {"sec.remove", "sec.retain", "sec.clear"}

\* An insert whose key is older than the cell's generation changes nothing;
\* an insert into an empty cell stores the pair under the key's generation,
\* whatever the cell held before it was emptied.
OlderInsertNeedsEmptyCell ==
    \A key \in SecKeyInputs :
        ret'.op = "sec.insert" /\ ret'.outcome = "ok" /\ ret'.key = key =>
            LET before == SecCell(key)
            IN  /\ before # None /\ key.generation < before[1].generation =>
                      /\ sec'.slots = sec.slots
                      /\ sec_elems' = sec_elems
                      /\ ret'.val = None
                /\ before = None =>
                      /\ sec'.slots[key.index + 1] # None
                      /\ sec'.slots[key.index + 1][1].generation =
                             key.generation
                      /\ sec_elems' = sec_elems + 1
                      /\ ret'.val = None

\* C38: for each index of a SecondaryMap the stored generation never
\* decreases while the cell stays present; an insert with an older
\* generation leaves a present cell untouched and takes effect only on a
\* cell that remove, retain or clear has emptied, where it is stored like
\* any insert into an empty cell.
C38_SecondaryGenerationMonotonic ==
    [][GenerationNeverDecreases /\ OlderInsertNeedsEmptyCell]_vars

\* Cell 1, which held a value under k1 at the start, has been emptied and an
\* insert with the older key k0 has just stored a value in it.
C38_Witness ==
    /\ ret = Ret("sec.insert", encode_key(1, 0), None, "ok")
    /\ sec_get(encode_key(1, 0)) # None
    /\ sec_get(encode_key(1, 1)) = None
    /\ sec_elems = 1

====
